---- MODULE Spec2Model ----
(***************************************************************************)
(* Model of the crawl route handler (POST), the page fetch (crawlPage),    *)
(* the browser pool (getBrowser / closeAllBrowsers) and the WCAG level     *)
(* filter (filterByWcagLevel) of the Web_Crawler repository.               *)
(*                                                                         *)
(* The route handler is one asynchronous task; every crawlPage call is a   *)
(* task of its own.  JavaScript runs each task without interruption up to  *)
(* its next await, so an action of the model is the code between two       *)
(* awaits.                                                                 *)
(*                                                                         *)
(* Timers.  In a wave the page timers (180000 ms) and the batch timer      *)
(* (300000 ms) are armed in the same synchronous block, after the launch   *)
(* of every browser of the wave was started (launch timeout 60000 ms).     *)
(* Hence a page timer never expires while its fetch still awaits the       *)
(* launch, and the batch timer never expires before every page race has    *)
(* settled: the batch-timeout catch blocks are unreachable and have no     *)
(* action here.                                                            *)
(*                                                                         *)
(* Spec serves one request at a time: the module-level pool starts empty   *)
(* and no other handler touches it during the run.                         *)
(***************************************************************************)
EXTENDS Integers, Sequences, FiniteSets, TLC

\* ---------------------------------------------------------------- bounds
MaxConcurrentPages == 2      \* concurrentPages ranges over 1..MaxConcurrentPages
MaxPath == 3                 \* the site has the pages 0..MaxPath on the seed's origin
MaxSitemapUrls == 4          \* a sitemap lists at most this many <loc> URLs

\* ------------------------------------------------------ program constants
MAX_BROWSER_INSTANCES == 3

\* ------------------------------------------------------------------ URLs
\* A URL string is scheme://host followed by the path.  The host is kept as
\* a sequence of tokens, so that the string prefix test of the code
\* (absoluteUrl.startsWith(baseUrl)) is the prefix test on the tokens.
U(h, p) == [host |-> h, path |-> p]
OriginHost == <<"o">>
OtherHost == <<"x">>
BlockedHost == <<"www.reddit.com">>
Seed == U(OriginHost, 0)
BlockedSeed == U(BlockedHost, 0)

IsPrefix(s, t) == Len(s) <= Len(t) /\ SubSeq(t, 1, Len(s)) = s
StartsWith(u, base) == IsPrefix(base, u.host)

\* Mutant of BLOCKED_SITES: the www. names are missing from the list.
BLOCKED_SITES_ApexOnly == {<<"reddit.com">>, <<"udemy.com">>}

BLOCKED_SITES == {<<"reddit.com">>, <<"www.reddit.com">>, <<"udemy.com">>, <<"www.udemy.com">>}

\* The site: the anchors of a page, in document order, already resolved to
\* absolute URLs.  Page p links to p+1 and p+2 (p+1 twice), to a page of
\* another origin and back to the seed.
LinksOf(u) ==
  IF u.host # OriginHost THEN <<>>
  ELSE SelectSeq(<<U(OriginHost, u.path + 1), U(OriginHost, u.path + 2),
                   U(OriginHost, u.path + 1), U(OtherHost, 0), Seed>>,
                 LAMBDA l : l.path <= MaxPath)

SeqToSet(s) == {s[k] : k \in 1..Len(s)}

\* Mutant of Dedup: the list is kept as it is, repetitions included.
DedupKeepsRepetitions(s) == s

\* Array.from(new Set(s)): first occurrences, in order.
RECURSIVE Dedup(_)
Dedup(s) ==
  IF s = <<>> THEN <<>>
  ELSE LET d == Dedup(SubSeq(s, 1, Len(s) - 1))
           x == s[Len(s)]
       IN IF x \in SeqToSet(d) THEN d ELSE Append(d, x)

\* ---------------------------------------------------------------- results
Res(u, links, err) == [url |-> u, links |-> links, error |-> err]
NoError == "none"

\* Mutant of ExtractLinks: links are collected whatever collectLinks says.
ExtractLinksAlways(u, vis, baseUrl, collectLinks) ==
  Dedup(SelectSeq(LinksOf(u), LAMBDA l : StartsWith(l, baseUrl) /\ l \notin vis))

\* crawlPage, link collection: same-prefix links not yet visited, deduplicated.
ExtractLinks(u, vis, baseUrl, collectLinks) ==
  IF ~collectLinks THEN <<>>
  ELSE Dedup(SelectSeq(LinksOf(u), LAMBDA l : StartsWith(l, baseUrl) /\ l \notin vis))

VARIABLES
  req,               \* the request body: [kind, url, crawlEntireWebsite,
                     \* concurrentPages, slowRateLimit]
  pc,                \* position of the route handler
  isClientConnected, \* POST: let isClientConnected
  frames,            \* frames written to the output stream, in order
  writerClosed,      \* writer.close() was called
  visited,           \* POST: const visited = new Set()
  results,           \* POST: const results: CrawlResult[]
  usedSitemap,       \* "null", "true" or "false"
  urlsToCrawl,       \* POST: urlsToCrawl
  i,                 \* index of the outer wave loop
  newLinksArray,     \* POST: newLinksArray
  j,                 \* index of the inner wave loop
  wave,              \* the callbacks of the wave awaited by the handler
  tasks,             \* crawlPage calls in progress
  nTasks,            \* number of crawlPage calls made so far
  dispatched,        \* URLs handed to crawlPage, in order
  browserPool,       \* let browserPool: Browser[]
  isCleaningUp,      \* let isCleaningUp (cleanupPromise is set exactly when it is true)
  nLaunched,         \* instances launched through the pool: 1..nLaunched
  closing,           \* instances whose close() is in flight
  closed,            \* instances whose close() has settled
  timedOut,          \* URLs whose page timer expired
  releaseCalls,      \* the closeAllBrowsers calls so far: "started" or "joined"
  closeFailed,       \* instances whose close() rejected
  wcag,              \* state of the level-filter specification
  nav,               \* state of the navigation-classification specification
  audit,             \* state of the audit specification
  plan,              \* state of the discovery-planning specification
  fetch,             \* state of the page-fetch specification
  pace               \* "dispatched" since the latest wave was dispatched,
                     \* "delay" once a delay of the run has elapsed after it

vars == <<req, pc, isClientConnected, frames, writerClosed, visited, results,
          usedSitemap, urlsToCrawl, i, newLinksArray, j, wave, tasks, nTasks,
          dispatched, browserPool, isCleaningUp, nLaunched, closing, closed,
          timedOut, releaseCalls, closeFailed, wcag, nav, audit, plan, fetch,
          pace>>

specVars == <<wcag, nav, audit, plan, fetch>>
auxVars == <<wcag, nav, audit, plan, fetch, pace>>
PlanIdle == [phase |-> "idle"]
FetchIdle == [phase |-> "idle"]
handlerVars == <<pc, isClientConnected, frames, writerClosed, results,
                 usedSitemap, urlsToCrawl, i, newLinksArray, j>>
poolVars == <<browserPool, isCleaningUp, nLaunched, closing, closed,
              releaseCalls, closeFailed>>


\* ----------------------------------------------------------- the request
\* kind tells an unparsable body, a missing url and a malformed url from a
\* request whose url parses; url is read only in the last case.
Requests ==
  {[kind |-> k, url |-> Seed, crawlEntireWebsite |-> FALSE, concurrentPages |-> 1,
    slowRateLimit |-> FALSE] :
      k \in {"badBody", "noUrl", "badUrl"}}
  \cup
  {[kind |-> "ok", url |-> u, crawlEntireWebsite |-> c, concurrentPages |-> n,
    slowRateLimit |-> FALSE] :
      u \in {Seed, BlockedSeed}, c \in BOOLEAN, n \in 1..MaxConcurrentPages}

\* The same requests with slowRateLimit set.
SlowRequests == {[r EXCEPT !.slowRateLimit = TRUE] : r \in Requests}

baseUrl == req.url.host    \* new URL(url).origin

\* What the fetch of /sitemap.xml gives: the <loc> values of the document in
\* document order (pages of the seed's host; none when the sitemap is absent,
\* empty or unparsable), or a failure of the launch or of the navigation.
SitemapFetched(locs) == [outcome |-> "content", locs |-> locs]
SitemapFailed == [outcome |-> "failed", locs |-> <<>>]

\* Mutant of getSitemapUrls: the <loc> values are returned as they come.
getSitemapUrlsKeepsRepetitions(fetched) ==
  IF fetched.outcome = "content" THEN fetched.locs ELSE <<>>

\* getSitemapUrls: the <loc> values are collected in a Set and returned as
\* an array; the catch returns [].
getSitemapUrls(fetched) ==
  IF fetched.outcome = "content" THEN Dedup(fetched.locs) ELSE <<>>

\* usedSitemap = sitemapUrls.length > 0; urlsToCrawl = sitemapUrls or [url].
Plan(sitemapUrls, url) ==
  [usedSitemap |-> IF Len(sitemapUrls) > 0 THEN "true" ELSE "false",
   urlsToCrawl |-> IF Len(sitemapUrls) > 0 THEN sitemapUrls ELSE <<url>>]

\* The sitemaps of the handler's runs list their pages in ascending order,
\* possibly more than once.
RECURSIVE Ascending(_)
Ascending(s) == Len(s) <= 1 \/ (s[1] <= s[2] /\ Ascending(Tail(s)))
SitemapsOfLen(n) ==
  {SitemapFetched([k \in 1..n |-> U(baseUrl, f[k])]) :
      f \in {g \in [1..n -> 0..MaxPath] : Ascending(g)}}
SitemapChoices ==
  {getSitemapUrls(f) :
     f \in {SitemapFailed} \cup UNION {SitemapsOfLen(n) : n \in 0..MaxSitemapUrls}}

Min(a, b) == IF a < b THEN a ELSE b

\* Mutant of Batch: the slice is one element too long.
BatchOneTooLong(urls, k, n) == SubSeq(urls, k + 1, Min(k + n + 1, Len(urls)))

\* urls.slice(k, k + concurrentPages), k counted from 0
Batch(urls, k, n) == SubSeq(urls, k + 1, Min(k + n, Len(urls)))

\* ------------------------------------------------------ the output stream
\* Mutant of ProgressFrame: the frame carries the accumulated results.
ProgressFrameAccumulated(newResults, allResults) ==
  [kind |-> "progress", results |-> allResults, error |-> NoError]

\* Mutant of ProgressFrame: the frame is flagged isComplete:true.
ProgressFrameFlaggedComplete(newResults, allResults) ==
  [kind |-> "final", results |-> newResults, error |-> NoError]

ProgressFrame(newResults, allResults) ==
  [kind |-> "progress", results |-> newResults, error |-> NoError]
FinalFrame(allResults) == [kind |-> "final", results |-> allResults, error |-> NoError]
ErrorFrame(msg) == [kind |-> "error", results |-> <<>>, error |-> msg]

\* writeResponse: skipped when the client is gone; a failed write marks the
\* client as gone.
WriteResponse(fr, conn, frame, ok) ==
  IF ~conn THEN [frames |-> fr, conn |-> FALSE]
  ELSE IF ok THEN [frames |-> Append(fr, frame), conn |-> TRUE]
  ELSE [frames |-> fr, conn |-> FALSE]

\* ------------------------------------------------------------ crawlPage
Slot(u, t, st, res) == [url |-> u, task |-> t, st |-> st, res |-> res]
Pending(u, t) == Slot(u, t, "pending", Res(u, <<>>, NoError))
Settled(u, r) == Slot(u, 0, "settled", r)

\* A getBrowser call in progress, or the fetch that got its browser.
\* atTeardown tells that the call was made while a teardown was in flight.
Task(id, u, st, b, atTeardown) ==
  [id |-> id, url |-> u, st |-> st, browser |-> b, atTeardown |-> atTeardown]

\* getBrowser from its capacity test on: launch while the pool has room,
\* otherwise hand out browserPool[browserPool.length % MAX_BROWSER_INSTANCES].
LaunchOrReuse(id, u, atTeardown) ==
  IF Len(browserPool) < MAX_BROWSER_INSTANCES
  THEN Task(id, u, "launch", 0, atTeardown)
  ELSE Task(id, u, "page",
            browserPool[(Len(browserPool) % MAX_BROWSER_INSTANCES) + 1], atTeardown)

\* Mutant of GetBrowser: a teardown in flight is not waited for.
GetBrowserIgnoresTeardown(id, u) == LaunchOrReuse(id, u, isCleaningUp)

\* getBrowser up to its first await: if (cleanupPromise) await cleanupPromise,
\* otherwise straight on to the capacity test.
GetBrowser(id, u) ==
  IF isCleaningUp
  THEN Task(id, u, "awaitCleanup", 0, TRUE)
  ELSE LaunchOrReuse(id, u, FALSE)

\* Mutant of CrawlPageStart: the membership test reads the visited set as it
\* was when the batch was dispatched.
CrawlPageStartStaleTest(u, acc) ==
  LET called == [acc EXCEPT !.dispatched = Append(@, u), !.nTasks = @ + 1]
      id == acc.nTasks + 1
  IN IF u.host \in BLOCKED_SITES
     THEN [called EXCEPT !.wave = Append(@, Settled(u, Res(u, <<>>, "blocked site")))]
     ELSE IF u \in visited
     THEN [called EXCEPT !.wave = Append(@, Settled(u, Res(u, <<>>, NoError)))]
     ELSE [called EXCEPT !.visited = @ \cup {u},
                         !.tasks = @ \cup {GetBrowser(id, u)},
                         !.wave = Append(@, Pending(u, id))]

\* crawlPage up to its first await.
CrawlPageStart(u, acc) ==
  LET called == [acc EXCEPT !.dispatched = Append(@, u), !.nTasks = @ + 1]
      id == acc.nTasks + 1
  IN IF u.host \in BLOCKED_SITES
     THEN [called EXCEPT !.wave = Append(@, Settled(u, Res(u, <<>>, "blocked site")))]
     ELSE IF u \in acc.visited
     THEN [called EXCEPT !.wave = Append(@, Settled(u, Res(u, <<>>, NoError)))]
     ELSE [called EXCEPT !.visited = @ \cup {u},
                         !.tasks = @ \cup {GetBrowser(id, u)},
                         !.wave = Append(@, Pending(u, id))]

\* The callback of the first wave loop: a visited URL yields null.
OuterCallback(u, acc) ==
  IF u \in acc.visited
  THEN [acc EXCEPT !.wave = Append(@, Slot(u, 0, "null", Res(u, <<>>, NoError)))]
  ELSE CrawlPageStart(u, acc)

\* The callback of the new-links loop.
InnerCallback(u, acc) == CrawlPageStart(u, acc)

RECURSIVE StartOuter(_, _)
StartOuter(batch, acc) ==
  IF batch = <<>> THEN acc ELSE StartOuter(Tail(batch), OuterCallback(Head(batch), acc))

RECURSIVE StartInner(_, _)
StartInner(batch, acc) ==
  IF batch = <<>> THEN acc ELSE StartInner(Tail(batch), InnerCallback(Head(batch), acc))

Acc == [visited |-> visited, tasks |-> tasks, nTasks |-> nTasks,
        wave |-> <<>>, dispatched |-> dispatched]

SetAcc(acc) ==
  /\ visited' = acc.visited
  /\ tasks' = acc.tasks
  /\ nTasks' = acc.nTasks
  /\ wave' = acc.wave
  /\ dispatched' = acc.dispatched

InWave == pc \in {"outerWait", "innerWait"}

\* The result of task t reaches its callback, unless the race was already
\* decided by the page timer or the wave is over.
Deliver(t, slot) ==
  [k \in DOMAIN wave |->
     IF wave[k].task = t.id /\ wave[k].st = "pending" THEN slot ELSE wave[k]]

\* An exception leaves crawlPage: the wave callback turns it into an error
\* result, the single-page call lets it reach the handler.
Thrown(t) ==
  IF InWave THEN Settled(t.url, Res(t.url, <<>>, "exception"))
  ELSE Slot(t.url, 0, "thrown", Res(t.url, <<>>, "exception"))

\* getBrowser throws during a teardown: the wave callback's catch puts the
\* message of the error into the result, the single-page call lets the error
\* reach the handler.
PoolBusy == "Browser pool is currently being cleaned up. Please try again in a moment."
Drained(t) ==
  IF InWave THEN Settled(t.url, Res(t.url, <<>>, PoolBusy))
  ELSE Slot(t.url, 0, "thrown", Res(t.url, <<>>, PoolBusy))

\* await puppeteer.launch(...) settles; browserPool.push(browser).
LaunchSettle(t) ==
  /\ t \in tasks
  /\ t.st = "launch"
  /\ \E ok \in BOOLEAN :
       IF ok
       THEN /\ nLaunched' = nLaunched + 1
            /\ browserPool' = Append(browserPool, nLaunched + 1)
            /\ tasks' = (tasks \ {t}) \cup {[t EXCEPT !.st = "page", !.browser = nLaunched + 1]}
            /\ wave' = wave
       ELSE /\ tasks' = tasks \ {t}
            /\ wave' = Deliver(t, Thrown(t))
            /\ UNCHANGED <<nLaunched, browserPool>>
  /\ UNCHANGED <<req, handlerVars, visited, nTasks, dispatched, isCleaningUp,
                 closing, closed, releaseCalls, closeFailed, timedOut, auxVars>>

\* getBrowser after await cleanupPromise: it throws if a teardown is in
\* flight again, and goes on to the capacity test otherwise.
CleanupResume(t) ==
  /\ t \in tasks
  /\ t.st = "resume"
  /\ IF isCleaningUp
     THEN /\ tasks' = (tasks \ {t}) \cup {[t EXCEPT !.st = "drained"]}
          /\ wave' = Deliver(t, Drained(t))
     ELSE /\ tasks' = (tasks \ {t}) \cup {LaunchOrReuse(t.id, t.url, TRUE)}
          /\ wave' = wave
  /\ UNCHANGED <<req, handlerVars, visited, nTasks, dispatched, poolVars,
                 timedOut, auxVars>>

\* The handler is awaiting the result of task t.
Awaited(t) == \E k \in DOMAIN wave : wave[k].task = t.id /\ wave[k].st = "pending"

\* The rest of crawlPage: newPage, navigation, classification, extraction,
\* audit, page close, and on the way to the successful return
\* if (slowRateLimit) await delay(2000).  "throw" is newPage() rejecting,
\* outside the try.
FetchSettle(t) ==
  /\ t \in tasks
  /\ t.st = "page"
  /\ \E out \in {"ok", "error", "throw"} :
       /\ wave' = Deliver(t,
                 CASE out = "ok" ->
                        Settled(t.url, Res(t.url,
                           ExtractLinks(t.url, visited, baseUrl, req.crawlEntireWebsite),
                           NoError))
                   [] out = "error" -> Settled(t.url, Res(t.url, <<>>, "navigation error"))
                   [] OTHER -> Thrown(t))
       /\ pace' = IF out = "ok" /\ req.slowRateLimit /\ Awaited(t) THEN "delay" ELSE pace
  /\ tasks' = tasks \ {t}
  /\ UNCHANGED <<req, handlerVars, visited, nTasks, dispatched, poolVars,
                 timedOut, specVars>>

\* Mutant of PageTimeout: the timer of one page ends every fetch of the wave
\* that is still pending.
PageTimeoutAbortsWave(t) ==
  /\ InWave
  /\ t \in tasks
  /\ t.st = "page"
  /\ \E k \in DOMAIN wave : wave[k].task = t.id /\ wave[k].st = "pending"
  /\ wave' = [k \in DOMAIN wave |->
                IF wave[k].st = "pending"
                THEN Settled(wave[k].url, Res(wave[k].url, <<>>, "Page crawl timeout"))
                ELSE wave[k]]
  /\ timedOut' = timedOut \cup {t.url}
  /\ UNCHANGED <<req, handlerVars, visited, tasks, nTasks, dispatched, poolVars, auxVars>>

\* The page timer of a wave callback wins the race; crawlPage keeps running.
PageTimeout(t) ==
  /\ InWave
  /\ t \in tasks
  /\ t.st = "page"
  /\ \E k \in DOMAIN wave : wave[k].task = t.id /\ wave[k].st = "pending"
  /\ wave' = Deliver(t, Settled(t.url, Res(t.url, <<>>, "Page crawl timeout")))
  /\ timedOut' = timedOut \cup {t.url}
  /\ UNCHANGED <<req, handlerVars, visited, tasks, nTasks, dispatched, poolVars, auxVars>>


\* ------------------------------------------------------- the route handler
taskVars == <<visited, wave, tasks, nTasks, dispatched>>

\* Mutant of MissingUrl: the return is missing, the handler goes on to fetch
\* the page.
MissingUrlNoReturn ==
  /\ pc = "start"
  /\ req.kind = "noUrl"
  /\ \E ok \in BOOLEAN :
       LET w == WriteResponse(frames, isClientConnected, ErrorFrame("URL is required"), ok)
       IN /\ frames' = w.frames
          /\ isClientConnected' = w.conn
          /\ writerClosed' = w.conn
  /\ SetAcc(CrawlPageStart(req.url, Acc))
  /\ pc' = "singleWait"
  /\ UNCHANGED <<req, results, usedSitemap, urlsToCrawl, i, newLinksArray, j,
                 poolVars, timedOut, auxVars>>

\* if (!url): one error frame, closeWriter, return (no teardown on this path).
MissingUrl ==
  /\ pc = "start"
  /\ req.kind = "noUrl"
  /\ \E ok \in BOOLEAN :
       LET w == WriteResponse(frames, isClientConnected, ErrorFrame("URL is required"), ok)
       IN /\ frames' = w.frames
          /\ isClientConnected' = w.conn
          /\ writerClosed' = w.conn
  /\ pc' = "done"
  /\ UNCHANGED <<req, results, usedSitemap, urlsToCrawl, i, newLinksArray, j,
                 taskVars, poolVars, timedOut, auxVars>>

\* Mutant of SetupFailure: the outer catch closes the stream without the
\* teardown.
SetupFailureSkipsTeardown ==
  /\ pc = "start"
  /\ req.kind \in {"badBody", "badUrl"}
  /\ \E ok \in BOOLEAN :
       LET w == WriteResponse(frames, isClientConnected, ErrorFrame("Internal server error"), ok)
       IN /\ frames' = w.frames
          /\ isClientConnected' = w.conn
  /\ pc' = "closeWriter"
  /\ UNCHANGED <<req, writerClosed, results, usedSitemap, urlsToCrawl, i,
                 newLinksArray, j, taskVars, poolVars, timedOut, auxVars>>

\* request.json() or new URL(url) throws: the outer catch writes an error
\* frame, its finally tears the pool down.
SetupFailure ==
  /\ pc = "start"
  /\ req.kind \in {"badBody", "badUrl"}
  /\ \E ok \in BOOLEAN :
       LET w == WriteResponse(frames, isClientConnected, ErrorFrame("Internal server error"), ok)
       IN /\ frames' = w.frames
          /\ isClientConnected' = w.conn
  /\ pc' = "cleanup"
  /\ UNCHANGED <<req, writerClosed, results, usedSitemap, urlsToCrawl, i,
                 newLinksArray, j, taskVars, poolVars, timedOut, auxVars>>

StartWholeSite ==
  /\ pc = "start"
  /\ req.kind = "ok"
  /\ req.crawlEntireWebsite
  /\ pc' = "sitemap"
  /\ UNCHANGED <<req, isClientConnected, frames, writerClosed, results,
                 usedSitemap, urlsToCrawl, i, newLinksArray, j, taskVars,
                 poolVars, timedOut, auxVars>>

\* Single page crawl: crawlPage(url, ..., collectLinks = false, ...).
StartSinglePage ==
  /\ pc = "start"
  /\ req.kind = "ok"
  /\ ~req.crawlEntireWebsite
  /\ SetAcc(CrawlPageStart(req.url, Acc))
  /\ pc' = "singleWait"
  /\ UNCHANGED <<req, isClientConnected, frames, writerClosed, results,
                 usedSitemap, urlsToCrawl, i, newLinksArray, j, poolVars,
                 timedOut, auxVars>>

\* await getSitemapUrls(baseUrl); usedSitemap; urlsToCrawl.
GetSitemap ==
  /\ pc = "sitemap"
  /\ \E sitemapUrls \in SitemapChoices :
       /\ usedSitemap' = Plan(sitemapUrls, req.url).usedSitemap
       /\ urlsToCrawl' = Plan(sitemapUrls, req.url).urlsToCrawl
  /\ i' = 0
  /\ pc' = "outerLoop"
  /\ UNCHANGED <<req, isClientConnected, frames, writerClosed, results,
                 newLinksArray, j, taskVars, poolVars, timedOut, auxVars>>

\* Head of the first wave loop: dispatch the next batch, or leave the loop.
OuterLoop ==
  /\ pc = "outerLoop"
  /\ IF i < Len(urlsToCrawl) /\ isClientConnected
     THEN /\ SetAcc(StartOuter(Batch(urlsToCrawl, i, req.concurrentPages), Acc))
          /\ pc' = "outerWait"
          /\ pace' = "dispatched"
     ELSE /\ pc' = "final"
          /\ UNCHANGED <<taskVars, pace>>
  /\ UNCHANGED <<req, isClientConnected, frames, writerClosed, results,
                 usedSitemap, urlsToCrawl, i, newLinksArray, j, poolVars,
                 timedOut, specVars>>

\* Mutant of WaveSettled: the handler goes on without waiting for the wave.
WaveNotAwaited == TRUE

\* await Promise.all(batch.map(...)) has resolved.
WaveSettled == \A k \in DOMAIN wave : wave[k].st # "pending"

\* Mutant of ValidResults: results that carry an error are filtered out too.
ValidResultsDropsErrors(w) ==
  LET kept == SelectSeq(w, LAMBDA sl : sl.st = "settled" /\ sl.res.error = NoError)
  IN [k \in 1..Len(kept) |-> kept[k].res]

\* batchResults.filter(r => r !== null)
ValidResults(w) ==
  LET kept == SelectSeq(w, LAMBDA sl : sl.st = "settled")
  IN [k \in 1..Len(kept) |-> kept[k].res]

RECURSIVE AllLinks(_)
AllLinks(rs) == IF rs = <<>> THEN <<>> ELSE Head(rs).links \o AllLinks(Tail(rs))

\* The set newLinks built from the results of a batch.
HarvestNewLinks(validResults, vis) ==
  Dedup(SelectSeq(AllLinks(validResults), LAMBDA l : l \notin vis))

\* Mutant of FollowLinks: links are followed whatever the sitemap gave.
FollowLinksAlways(used) == TRUE

\* if (!usedSitemap)
FollowLinks(used) == used # "true"

\* Mutant of OuterWaveDone: the index of the loop is not advanced.
OuterWaveDoneStaysPut ==
  /\ pc = "outerWait"
  /\ WaveSettled
  /\ LET validResults == ValidResults(wave)
     IN /\ results' = results \o validResults
        /\ \E ok \in BOOLEAN :
             LET w == WriteResponse(frames, isClientConnected,
                                    ProgressFrame(validResults, results \o validResults), ok)
             IN /\ frames' = w.frames
                /\ isClientConnected' = w.conn
        /\ IF FollowLinks(usedSitemap)
           THEN /\ newLinksArray' = HarvestNewLinks(validResults, visited)
                /\ j' = 0
                /\ pc' = "innerLoop"
                /\ i' = i
           ELSE /\ i' = i
                /\ pc' = "outerLoop"
                /\ UNCHANGED <<newLinksArray, j>>
  /\ wave' = <<>>
  /\ UNCHANGED <<req, writerClosed, usedSitemap, urlsToCrawl, visited, tasks,
                 nTasks, dispatched, poolVars, timedOut, auxVars>>

\* The first wave is over: push, progress frame, then either the new-links
\* loop or the next iteration.
OuterWaveDone ==
  /\ pc = "outerWait"
  /\ WaveSettled
  /\ LET validResults == ValidResults(wave)
     IN /\ results' = results \o validResults
        /\ \E ok \in BOOLEAN :
             LET w == WriteResponse(frames, isClientConnected,
                                    ProgressFrame(validResults, results \o validResults), ok)
             IN /\ frames' = w.frames
                /\ isClientConnected' = w.conn
        /\ IF FollowLinks(usedSitemap)
           THEN /\ newLinksArray' = HarvestNewLinks(validResults, visited)
                /\ j' = 0
                /\ pc' = "innerLoop"
                /\ i' = i
           ELSE /\ i' = i + req.concurrentPages
                /\ pc' = "outerLoop"
                /\ UNCHANGED <<newLinksArray, j>>
  /\ wave' = <<>>
  /\ UNCHANGED <<req, writerClosed, usedSitemap, urlsToCrawl, visited, tasks,
                 nTasks, dispatched, poolVars, timedOut, auxVars>>

\* Mutant of InnerLoop: the loop goes on after the client is gone.
InnerLoopIgnoresDisconnect ==
  /\ pc = "innerLoop"
  /\ IF j < Len(newLinksArray)
     THEN /\ SetAcc(StartInner(Batch(newLinksArray, j, req.concurrentPages), Acc))
          /\ pc' = "innerWait"
          /\ i' = i
          /\ pace' = "dispatched"
     ELSE /\ i' = i + req.concurrentPages
          /\ pc' = "outerLoop"
          /\ UNCHANGED <<taskVars, pace>>
  /\ UNCHANGED <<req, isClientConnected, frames, writerClosed, results,
                 usedSitemap, urlsToCrawl, newLinksArray, j, poolVars,
                 timedOut, specVars>>

\* Head of the new-links loop.
InnerLoop ==
  /\ pc = "innerLoop"
  /\ IF j < Len(newLinksArray) /\ isClientConnected
     THEN /\ SetAcc(StartInner(Batch(newLinksArray, j, req.concurrentPages), Acc))
          /\ pc' = "innerWait"
          /\ i' = i
          /\ pace' = "dispatched"
     ELSE /\ i' = i + req.concurrentPages
          /\ pc' = "outerLoop"
          /\ UNCHANGED <<taskVars, pace>>
  /\ UNCHANGED <<req, isClientConnected, frames, writerClosed, results,
                 usedSitemap, urlsToCrawl, newLinksArray, j, poolVars,
                 timedOut, specVars>>

\* The wave of the new-links loop is over: push, progress frame,
\* if (slowRateLimit) await delay(1000), and back to the head of the loop.
InnerWaveDone ==
  /\ pc = "innerWait"
  /\ WaveSettled
  /\ LET newBatchResults == [k \in 1..Len(wave) |-> wave[k].res]
     IN /\ results' = results \o newBatchResults
        /\ \E ok \in BOOLEAN :
             LET w == WriteResponse(frames, isClientConnected,
                                    ProgressFrame(newBatchResults, results \o newBatchResults), ok)
             IN /\ frames' = w.frames
                /\ isClientConnected' = w.conn
  /\ pace' = IF req.slowRateLimit THEN "delay" ELSE pace
  /\ j' = j + req.concurrentPages
  /\ pc' = "innerLoop"
  /\ wave' = <<>>
  /\ UNCHANGED <<req, writerClosed, usedSitemap, urlsToCrawl, i, newLinksArray,
                 visited, tasks, nTasks, dispatched, poolVars, timedOut, specVars>>

\* The single page call returned: push and progress frame.
SingleDone ==
  /\ pc = "singleWait"
  /\ wave[1].st = "settled"
  /\ results' = Append(results, wave[1].res)
  /\ \E ok \in BOOLEAN :
       LET w == WriteResponse(frames, isClientConnected,
                              ProgressFrame(<<wave[1].res>>, Append(results, wave[1].res)), ok)
       IN /\ frames' = w.frames
          /\ isClientConnected' = w.conn
  /\ pc' = "final"
  /\ wave' = <<>>
  /\ UNCHANGED <<req, writerClosed, usedSitemap, urlsToCrawl, i, newLinksArray,
                 j, visited, tasks, nTasks, dispatched, poolVars, timedOut, auxVars>>

\* The single page call threw: catch of the crawl, 'Internal server error
\* during crawl'.
SingleThrown ==
  /\ pc = "singleWait"
  /\ wave[1].st = "thrown"
  /\ \E ok \in BOOLEAN :
       LET w == WriteResponse(frames, isClientConnected,
                              ErrorFrame("Internal server error during crawl"), ok)
       IN /\ frames' = w.frames
          /\ isClientConnected' = w.conn
  /\ pc' = "cleanup"
  /\ wave' = <<>>
  /\ UNCHANGED <<req, writerClosed, results, usedSitemap, urlsToCrawl, i,
                 newLinksArray, j, visited, tasks, nTasks, dispatched, poolVars,
                 timedOut, auxVars>>

\* Mutant of Final: the final frame is never written.
FinalSkipped ==
  /\ pc = "final"
  /\ pc' = "cleanup"
  /\ UNCHANGED <<req, isClientConnected, frames, writerClosed, results,
                 usedSitemap, urlsToCrawl, i, newLinksArray, j, taskVars,
                 poolVars, timedOut, auxVars>>

\* if (isClientConnected) send the final results.
Final ==
  /\ pc = "final"
  /\ \E ok \in BOOLEAN :
       LET w == WriteResponse(frames, isClientConnected, FinalFrame(results), ok)
       IN /\ frames' = w.frames
          /\ isClientConnected' = w.conn
  /\ pc' = "cleanup"
  /\ UNCHANGED <<req, writerClosed, results, usedSitemap, urlsToCrawl, i,
                 newLinksArray, j, taskVars, poolVars, timedOut, auxVars>>

\* ------------------------------------------------------- closeAllBrowsers
\* Mutant of ToClose: the last browser of the pool is not closed.
ToCloseAllButLast(pool) == SeqToSet(SubSeq(pool, 1, Len(pool) - 1))

\* The browsers whose close() the teardown invokes.
ToClose(pool) == SeqToSet(pool)

\* closeAllBrowsers up to await Promise.all(closePromises).
CleanupStart ==
  /\ pc = "cleanup"
  /\ IF isCleaningUp
     THEN UNCHANGED <<isCleaningUp, closing>>
     ELSE /\ isCleaningUp' = TRUE
          /\ closing' = closing \cup ToClose(browserPool)
  /\ releaseCalls' = Append(releaseCalls, IF isCleaningUp THEN "joined" ELSE "started")
  /\ pc' = "cleanupWait"
  /\ UNCHANGED <<req, isClientConnected, frames, writerClosed, results,
                 usedSitemap, urlsToCrawl, i, newLinksArray, j, taskVars,
                 browserPool, nLaunched, closed, closeFailed, timedOut, auxVars>>

\* One browser.close() settles; a rejection is logged and otherwise has the
\* effect of a resolution.
CloseSettle(b) ==
  /\ b \in closing
  /\ closing' = closing \ {b}
  /\ closed' = closed \cup {b}
  /\ UNCHANGED <<req, handlerVars, taskVars, browserPool, isCleaningUp,
                 nLaunched, releaseCalls, closeFailed, timedOut, auxVars>>

\* cleanupPromise resolves: the getBrowser calls awaiting it may go on.
Wake(ts) ==
  {IF t.st = "awaitCleanup" THEN [t EXCEPT !.st = "resume"] ELSE t : t \in ts}

\* Promise.all resolved: browserPool = []; finally isCleaningUp = false.
CleanupFinish ==
  /\ pc = "cleanupWait"
  /\ isCleaningUp
  /\ closing = {}
  /\ browserPool' = <<>>
  /\ isCleaningUp' = FALSE
  /\ tasks' = Wake(tasks)
  /\ pc' = "closeWriter"
  /\ UNCHANGED <<req, isClientConnected, frames, writerClosed, results,
                 usedSitemap, urlsToCrawl, i, newLinksArray, j, visited, wave,
                 nTasks, dispatched, nLaunched, closing, closed, releaseCalls,
                 closeFailed, timedOut, auxVars>>

\* ------------------------------------------- the pool under several runs
\* browserPool, isCleaningUp and cleanupPromise are module-level: every
\* request served by the process shares them.  The actions below are the
\* pool calls of requests other than the one whose handler pc follows.
MaxAcquires == 2             \* getBrowser calls of the other requests
MaxReleases == 2             \* closeAllBrowsers calls of the other requests

\* crawlPage of another request: const browser = await getBrowser().
PoolAcquire ==
  /\ nTasks < MaxAcquires
  /\ tasks' = tasks \cup {GetBrowser(nTasks + 1, Seed)}
  /\ nTasks' = nTasks + 1
  /\ UNCHANGED <<req, handlerVars, visited, wave, dispatched, poolVars,
                 timedOut, auxVars>>

\* Mutant of PoolRelease: a teardown in flight is not joined.
PoolReleaseNoJoin ==
  /\ Len(releaseCalls) < MaxReleases
  /\ releaseCalls' = Append(releaseCalls, "started")
  /\ isCleaningUp' = TRUE
  /\ closing' = closing \cup ToClose(browserPool)
  /\ UNCHANGED <<req, handlerVars, taskVars, browserPool, nLaunched, closed,
                 closeFailed, timedOut, auxVars>>

\* The finally of another request's handler: await closeAllBrowsers(), up
\* to await Promise.all(closePromises).
PoolRelease ==
  /\ Len(releaseCalls) < MaxReleases
  /\ releaseCalls' = Append(releaseCalls, IF isCleaningUp THEN "joined" ELSE "started")
  /\ IF isCleaningUp
     THEN UNCHANGED <<isCleaningUp, closing>>
     ELSE /\ isCleaningUp' = TRUE
          /\ closing' = closing \cup ToClose(browserPool)
  /\ UNCHANGED <<req, handlerVars, taskVars, browserPool, nLaunched, closed,
                 closeFailed, timedOut, auxVars>>

\* browser.close() rejects: the callback's catch logs the error, so that
\* Promise.all sees the callback fulfilled.
CloseReject(b) ==
  /\ b \in closing
  /\ closing' = closing \ {b}
  /\ closed' = closed \cup {b}
  /\ closeFailed' = closeFailed \cup {b}
  /\ UNCHANGED <<req, handlerVars, taskVars, browserPool, isCleaningUp,
                 nLaunched, releaseCalls, timedOut, auxVars>>

\* The teardown started by another request completes.
PoolCleanupFinish ==
  /\ pc # "cleanupWait"
  /\ isCleaningUp
  /\ closing = {}
  /\ browserPool' = <<>>
  /\ isCleaningUp' = FALSE
  /\ tasks' = Wake(tasks)
  /\ UNCHANGED <<req, handlerVars, visited, wave, nTasks, dispatched, nLaunched,
                 closing, closed, releaseCalls, closeFailed, timedOut, auxVars>>

\* closeWriter: writer.close() unless the client is gone.
CloseWriter ==
  /\ pc = "closeWriter"
  /\ writerClosed' = isClientConnected
  /\ pc' = "done"
  /\ UNCHANGED <<req, isClientConnected, frames, results, usedSitemap,
                 urlsToCrawl, i, newLinksArray, j, taskVars, poolVars,
                 timedOut, auxVars>>


\* ------------------------------------------------------ filterByWcagLevel
MaxTags == 2                 \* an outcome carries at most this many tags
MaxOutcomes == 1             \* a result category holds at most this many outcomes

\* Tags are strings, kept as sequences of characters.
wcag2a == <<"w", "c", "a", "g", "2", "a">>
wcag2aa == <<"w", "c", "a", "g", "2", "a", "a">>
wcag2aaa == <<"w", "c", "a", "g", "2", "a", "a", "a">>
wcag244 == <<"w", "c", "a", "g", "2", "4", "4">>
catAria == <<"c", "a", "t", ".", "a", "r", "i", "a">>
Tags == {wcag2a, wcag2aa, wcag2aaa, wcag244, catAria}

startsWith(str, prefix) == IsPrefix(prefix, str)
endsWith(str, suffix) ==
  Len(suffix) <= Len(str) /\ SubSeq(str, Len(str) - Len(suffix) + 1, Len(str)) = suffix

\* Mutant of filterByWcagLevel: an outcome without WCAG tag is dropped.
filterByWcagLevelDropsUntagged(result, wcagLevels) ==
  LET wcagTags == SelectSeq(result.tags, LAMBDA tag : startsWith(tag, <<"w", "c", "a", "g", "2">>))
  IN \E k \in 1..Len(wcagTags) :
       LET tag == wcagTags[k]
       IN \/ (endsWith(tag, <<"a">>) /\ wcagLevels.A)
          \/ (endsWith(tag, <<"a", "a">>) /\ wcagLevels.AA)
          \/ (endsWith(tag, <<"a", "a", "a">>) /\ wcagLevels.AAA)

\* const filterByWcagLevel = (result) => ...
filterByWcagLevel(result, wcagLevels) ==
  LET wcagTags == SelectSeq(result.tags, LAMBDA tag : startsWith(tag, <<"w", "c", "a", "g", "2">>))
  IN IF Len(wcagTags) = 0 THEN TRUE
     ELSE \E k \in 1..Len(wcagTags) :
            LET tag == wcagTags[k]
            IN \/ (endsWith(tag, <<"a">>) /\ wcagLevels.A)
               \/ (endsWith(tag, <<"a", "a">>) /\ wcagLevels.AA)
               \/ (endsWith(tag, <<"a", "a", "a">>) /\ wcagLevels.AAA)

Categories == {"violations", "passes", "incomplete", "inapplicable"}
SeqsUpTo(S, n) == UNION {[1..m -> S] : m \in 0..n}
Outcomes == {[tags |-> t] : t \in SeqsUpTo(Tags, MaxTags)}
Levels == [A : BOOLEAN, AA : BOOLEAN, AAA : BOOLEAN]

WcagIdle == [phase |-> "idle", levels |-> [A |-> FALSE, AA |-> FALSE, AAA |-> FALSE],
             category |-> "none", input |-> <<>>, output |-> <<>>]

\* results.<category>.filter(filterByWcagLevel)
ApplyFilter(c) ==
  /\ wcag.phase = "input"
  /\ wcag' = [wcag EXCEPT !.phase = "filtered", !.category = c,
                !.output = SelectSeq(wcag.input, LAMBDA r : filterByWcagLevel(r, wcag.levels))]
  /\ UNCHANGED <<req, handlerVars, taskVars, poolVars, timedOut, nav, audit, plan, fetch, pace>>

\* ------------------------------- crawlPage: the outcome of page.goto
\* Error texts are kept as sequences of words, raw exception messages as
\* sequences of pieces; a piece is one of the markers crawlPage looks for
\* or text holding none of them (no marker is part of another one).
MaxMessageLen == 2           \* an exception message has at most this many pieces

NoStatus == 0                \* response?.status() is undefined
Statuses == {NoStatus} \cup (100..599)

Forbidden403 ==
  <<"Access", "forbidden", "(403).", "This", "website", "is", "blocking", "web",
    "crawlers.", "Please", "use", "their", "official", "API", "or", "contact",
    "them", "for", "access.">>
TooMany429 ==
  <<"Too", "many", "requests", "(429).", "This", "website", "is", "rate",
    "limiting", "access.", "Please", "try", "again", "later.">>
HttpError(status) == <<"HTTP", "Error", ToString(status)>>

NavResult(failed, error) == [failed |-> failed, error |-> error]

\* if (status) { 403 ... 429 ... status >= 400 ... }
statusError(status) ==
  IF status # NoStatus
  THEN IF status = 403 THEN NavResult(TRUE, Forbidden403)
       ELSE IF status = 429 THEN NavResult(TRUE, TooMany429)
       ELSE IF status >= 400 THEN NavResult(TRUE, HttpError(status))
       ELSE NavResult(FALSE, <<>>)
  ELSE NavResult(FALSE, <<>>)

Markers ==
  {"ERR_TOO_MANY_REDIRECTS", "ERR_ABORTED", "ERR_HTTP2_PROTOCOL_ERROR",
   "ERR_UNEXPECTED_PROXY_AUTH", "timeout", "net::ERR_CONNECTION_REFUSED",
   "net::ERR_CONNECTION_TIMED_OUT", "net::ERR_NAME_NOT_RESOLVED"}
Pieces == Markers \cup {"at", "https://o/"}

\* error.message.includes(marker)
includes(message, marker) == \E k \in 1..Len(message) : message[k] = marker

\* Mutant of errorMessage: the 'timeout' test comes after the net:: tests.
errorMessageTimeoutLast(isError, message) ==
  IF ~isError THEN <<"Unknown", "error">>
  ELSE IF includes(message, "ERR_TOO_MANY_REDIRECTS") THEN <<"Too", "many", "redirects", "detected">>
  ELSE IF includes(message, "ERR_ABORTED") THEN <<"Request", "was", "aborted">>
  ELSE IF includes(message, "ERR_HTTP2_PROTOCOL_ERROR") THEN <<"HTTP/2", "protocol", "error">>
  ELSE IF includes(message, "ERR_UNEXPECTED_PROXY_AUTH") THEN <<"Unexpected", "proxy", "authentication">>
  ELSE IF includes(message, "net::ERR_CONNECTION_REFUSED") THEN <<"Connection", "refused">>
  ELSE IF includes(message, "net::ERR_CONNECTION_TIMED_OUT") THEN <<"Connection", "timed", "out">>
  ELSE IF includes(message, "net::ERR_NAME_NOT_RESOLVED") THEN <<"Domain", "name", "not", "resolved">>
  ELSE IF includes(message, "timeout") THEN <<"Page", "load", "timed", "out">>
  ELSE message

\* The catch of crawlPage: let errorMessage = 'Unknown error'; if (error
\* instanceof Error) { ... }
errorMessage(isError, message) ==
  IF ~isError THEN <<"Unknown", "error">>
  ELSE IF includes(message, "ERR_TOO_MANY_REDIRECTS") THEN <<"Too", "many", "redirects", "detected">>
  ELSE IF includes(message, "ERR_ABORTED") THEN <<"Request", "was", "aborted">>
  ELSE IF includes(message, "ERR_HTTP2_PROTOCOL_ERROR") THEN <<"HTTP/2", "protocol", "error">>
  ELSE IF includes(message, "ERR_UNEXPECTED_PROXY_AUTH") THEN <<"Unexpected", "proxy", "authentication">>
  ELSE IF includes(message, "timeout") THEN <<"Page", "load", "timed", "out">>
  ELSE IF includes(message, "net::ERR_CONNECTION_REFUSED") THEN <<"Connection", "refused">>
  ELSE IF includes(message, "net::ERR_CONNECTION_TIMED_OUT") THEN <<"Connection", "timed", "out">>
  ELSE IF includes(message, "net::ERR_NAME_NOT_RESOLVED") THEN <<"Domain", "name", "not", "resolved">>
  ELSE message

NavIdle == [phase |-> "idle"]
NavInput(outcome, status, isError, message) ==
  [phase |-> "input", outcome |-> outcome, status |-> status, isError |-> isError,
   message |-> message, failed |-> FALSE, error |-> <<>>]

\* page.goto resolved: the status of the response is classified.
ClassifyStatus ==
  /\ nav.phase = "input"
  /\ nav.outcome = "response"
  /\ LET r == statusError(nav.status)
     IN nav' = [nav EXCEPT !.phase = "done", !.failed = r.failed, !.error = r.error]
  /\ UNCHANGED <<req, handlerVars, taskVars, poolVars, timedOut, wcag, audit, plan, fetch, pace>>

\* An exception reached the catch of crawlPage: the result carries the
\* mapped message.
MapException ==
  /\ nav.phase = "input"
  /\ nav.outcome = "exception"
  /\ nav' = [nav EXCEPT !.phase = "done", !.failed = TRUE,
                        !.error = errorMessage(nav.isError, nav.message)]
  /\ UNCHANGED <<req, handlerVars, taskVars, poolVars, timedOut, wcag, audit, plan, fetch, pace>>

\* ------------------------------------- runAccessibilityCheckOnLocalCopy
maxRetries == 3

\* The report of an audit; error is a text, empty when there is none.
Report(violations, passes, incomplete, nonApplicable, error) ==
  [violations |-> violations, passes |-> passes, incomplete |-> incomplete,
   nonApplicable |-> nonApplicable, error |-> error]
EmptyReport(error) == Report(<<>>, <<>>, <<>>, <<>>, error)

\* `Failed to run accessibility check after ${maxRetries} attempts: ${...}`
AttemptsError(cause) ==
  <<"Failed", "to", "run", "accessibility", "check", "after", ToString(maxRetries),
    "attempts:", cause>>
AllRetriesError ==
  <<"Failed", "to", "run", "accessibility", "check", "after", "all", "retries">>
AuditTimeoutError == <<"Accessibility", "check", "timeout">>

\* The four categories of the engine's results, filtered by level.
FilteredReport(raw, wcagLevels) ==
  Report(SelectSeq(raw.violations, LAMBDA r : filterByWcagLevel(r, wcagLevels)),
         SelectSeq(raw.passes, LAMBDA r : filterByWcagLevel(r, wcagLevels)),
         SelectSeq(raw.incomplete, LAMBDA r : filterByWcagLevel(r, wcagLevels)),
         SelectSeq(raw.inapplicable, LAMBDA r : filterByWcagLevel(r, wcagLevels)),
         <<>>)

AuditIdle == [phase |-> "idle"]

\* Directories are paths below the working directory.  crawlPage makes
\* temp/<random hex> for the audit; savePageLocally makes a temp/<random hex>
\* of its own for every snapshot, named here by the attempt that built it.
CrawlTempDir == <<"temp", "page">>
SnapshotDir(attempt) == <<"temp", "snapshot", attempt>>
Inside(p, dir) ==
  /\ Len(p) > Len(dir)
  /\ SubSeq(p, 1, Len(dir)) = dir

\* cleanupTempDir(tempDir): every item inside the directory is removed, the
\* directory itself and everything outside it stay.
cleanupTempDir(fs, tempDir) == {p \in fs : ~Inside(p, tempDir)}

\* The audit called on a page: the first attempt is about to build its
\* snapshot.  raw is what the engine reports when an analysis succeeds;
\* snapshotAt and launchAt are the attempts that built the snapshot and
\* launched the isolated browser at hand; live holds the isolated browsers
\* launched and not closed, each named by the attempt that launched it;
\* raced tells that the caller's 120 s timer has won.
AuditCalled(wcagLevels, raw) ==
  [phase |-> "snapshot", levels |-> wcagLevels, raw |-> raw, retryCount |-> 0,
   attempts |-> 1, snapshotAt |-> 0, launchAt |-> 0, browserOpen |-> FALSE,
   live |-> {}, report |-> EmptyReport(<<>>), raced |-> FALSE,
   fs |-> {CrawlTempDir}, cleaned |-> FALSE]

\* Mutant of AttemptFails: the first failure already gives the error report.
AttemptFailsGivesUp(a, cause) ==
  [a EXCEPT !.retryCount = @ + 1, !.phase = "returned",
            !.report = EmptyReport(AttemptsError(cause)), !.browserOpen = FALSE,
            !.live = @ \ {a.launchAt}]

\* catch (error): retryCount++; the error report after the last attempt,
\* otherwise page and browser are closed and the 2 s wait begins.  On either
\* way the browser the variable refers to, the one of attempt launchAt, is
\* closed: by the catch before the wait, by the finally before the return.
AttemptFails(a, cause) ==
  IF a.retryCount + 1 = maxRetries
  THEN [a EXCEPT !.retryCount = @ + 1, !.phase = "returned",
                 !.report = EmptyReport(AttemptsError(cause)), !.browserOpen = FALSE,
                 !.live = @ \ {a.launchAt}]
  ELSE [a EXCEPT !.retryCount = @ + 1, !.phase = "retryWait", !.browserOpen = FALSE,
                 !.live = @ \ {a.launchAt}]

AuditUnchanged == UNCHANGED <<req, handlerVars, taskVars, poolVars, timedOut, wcag, nav, plan, fetch, pace>>

\* await savePageLocally(page, tempDir): the snapshot goes to a directory the
\* function makes itself, first of all, whatever fails afterwards; the
\* directory passed by the caller is not used.
savePageLocally(a) == [a EXCEPT !.fs = @ \cup {SnapshotDir(a.attempts)}]

AuditSnapshot ==
  /\ audit.phase = "snapshot"
  /\ \E ok \in BOOLEAN :
       audit' = IF ok THEN [savePageLocally(audit) EXCEPT !.phase = "launch",
                                                          !.snapshotAt = audit.attempts]
                ELSE AttemptFails(savePageLocally(audit), "snapshot")
  /\ AuditUnchanged

\* browser = await puppeteer.launch(...)
AuditLaunch ==
  /\ audit.phase = "launch"
  /\ \E ok \in BOOLEAN :
       audit' = IF ok THEN [audit EXCEPT !.phase = "navigate", !.launchAt = audit.attempts,
                                         !.browserOpen = TRUE,
                                         !.live = @ \cup {audit.attempts}]
                ELSE AttemptFails(audit, "launch")
  /\ AuditUnchanged

\* newPage, goto(localUrl), if (!response) throw, waitForFunction(readyState)
AuditNavigate ==
  /\ audit.phase = "navigate"
  /\ \E ok \in BOOLEAN :
       audit' = IF ok THEN [audit EXCEPT !.phase = "engine"]
                ELSE AttemptFails(audit, "navigation")
  /\ AuditUnchanged

\* addScriptTag(axe-core), waitForFunction(window.axe), configure
AuditEngine ==
  /\ audit.phase = "engine"
  /\ \E ok \in BOOLEAN :
       audit' = IF ok THEN [audit EXCEPT !.phase = "analysis"]
                ELSE AttemptFails(audit, "engine")
  /\ AuditUnchanged

\* Mutant of AuditAnalysis: the return leaves the isolated browser open.
AuditAnalysisLeavesBrowser ==
  /\ audit.phase = "analysis"
  /\ \E ok \in BOOLEAN :
       audit' = IF ok THEN [audit EXCEPT !.phase = "returned",
                                         !.report = FilteredReport(audit.raw, audit.levels)]
                ELSE AttemptFails(audit, "analysis")
  /\ AuditUnchanged

\* axe.run, screenshots, filtering, return; the finally closes page and
\* browser.
AuditAnalysis ==
  /\ audit.phase = "analysis"
  /\ \E ok \in BOOLEAN :
       audit' = IF ok THEN [audit EXCEPT !.phase = "returned", !.browserOpen = FALSE,
                                         !.live = @ \ {audit.launchAt},
                                         !.report = FilteredReport(audit.raw, audit.levels)]
                ELSE AttemptFails(audit, "analysis")
  /\ AuditUnchanged

\* The 2 s wait and the finally are over: while (retryCount < maxRetries),
\* and the report after the loop.
AuditRetry ==
  /\ audit.phase = "retryWait"
  /\ audit' = IF audit.retryCount < maxRetries
               THEN [audit EXCEPT !.phase = "snapshot", !.attempts = @ + 1]
               ELSE [audit EXCEPT !.phase = "returned", !.report = EmptyReport(AllRetriesError)]
  /\ AuditUnchanged

\* crawlPage: the 120 s timer wins the race; the audit goes on unobserved.
AuditRaceTimeout ==
  /\ audit.phase \notin {"idle", "returned"}
  /\ ~audit.raced
  /\ audit' = [audit EXCEPT !.raced = TRUE]
  /\ AuditUnchanged

\* crawlPage: finally { await cleanupTempDir(tempDir) }, once the race is
\* settled by the audit's return or by the timer.
AuditCleanup ==
  /\ audit.phase # "idle"
  /\ audit.phase = "returned" \/ audit.raced
  /\ ~audit.cleaned
  /\ audit' = [audit EXCEPT !.cleaned = TRUE, !.fs = cleanupTempDir(@, CrawlTempDir)]
  /\ AuditUnchanged

\* crawlPage: accessibilityResults after the race.
accessibilityResults ==
  IF audit.raced THEN EmptyReport(AuditTimeoutError) ELSE audit.report

\* --------------------------------------------------------- specifications
InitRun(r) ==
  /\ req = r
  /\ pc = "start"
  /\ isClientConnected = TRUE
  /\ frames = <<>>
  /\ writerClosed = FALSE
  /\ visited = {}
  /\ results = <<>>
  /\ usedSitemap = "null"
  /\ urlsToCrawl = <<>>
  /\ i = 0
  /\ newLinksArray = <<>>
  /\ j = 0
  /\ wave = <<>>
  /\ tasks = {}
  /\ nTasks = 0
  /\ dispatched = <<>>
  /\ browserPool = <<>>
  /\ isCleaningUp = FALSE
  /\ nLaunched = 0
  /\ closing = {}
  /\ closed = {}
  /\ timedOut = {}
  /\ releaseCalls = <<>>
  /\ closeFailed = {}
  /\ pace = "none"

Init ==
  /\ \E r \in Requests : InitRun(r)
  /\ wcag = WcagIdle
  /\ nav = NavIdle
  /\ audit = AuditIdle
  /\ plan = PlanIdle
  /\ fetch = FetchIdle

Next ==
  \/ MissingUrl
  \/ SetupFailure
  \/ StartWholeSite
  \/ StartSinglePage
  \/ GetSitemap
  \/ OuterLoop
  \/ OuterWaveDone
  \/ InnerLoop
  \/ InnerWaveDone
  \/ SingleDone
  \/ SingleThrown
  \/ Final
  \/ CleanupStart
  \/ CleanupFinish
  \/ CloseWriter
  \/ \E t \in tasks : LaunchSettle(t)
  \/ \E t \in tasks : FetchSettle(t)
  \/ \E t \in tasks : PageTimeout(t)
  \/ \E b \in closing : CloseSettle(b)

Spec == Init /\ [][Next]_vars

\* The pool used by the fetches and handlers of overlapping requests.
PoolInit ==
  /\ InitRun([kind |-> "ok", url |-> Seed, crawlEntireWebsite |-> TRUE,
              concurrentPages |-> 1,
              slowRateLimit |-> FALSE])
  /\ wcag = WcagIdle
  /\ nav = NavIdle
  /\ audit = AuditIdle
  /\ plan = PlanIdle
  /\ fetch = FetchIdle

PoolNext ==
  \/ PoolAcquire
  \/ PoolRelease
  \/ PoolCleanupFinish
  \/ \E t \in tasks : LaunchSettle(t)
  \/ \E t \in tasks : CleanupResume(t)
  \/ \E b \in closing : CloseSettle(b)
  \/ \E b \in closing : CloseReject(b)

SpecPool == PoolInit /\ [][PoolNext]_vars

\* The pool filled and then used at capacity: getBrowser calls and their
\* launches, without any teardown.
MaxCalls == 6                \* getBrowser calls, at least three of them at capacity

CapacityAcquire ==
  /\ nTasks < MaxCalls
  /\ tasks' = tasks \cup {GetBrowser(nTasks + 1, Seed)}
  /\ nTasks' = nTasks + 1
  /\ UNCHANGED <<req, handlerVars, visited, wave, dispatched, poolVars,
                 timedOut, auxVars>>

CapacityNext ==
  \/ CapacityAcquire
  \/ \E t \in tasks : LaunchSettle(t)

SpecCapacity == PoolInit /\ [][CapacityNext]_vars

\* crawlPage called on any batch of URLs, the same URL twice included, over
\* one visited set.
FetchUrls == {Seed, U(OriginHost, 1)}

VisitedInit ==
  /\ InitRun([kind |-> "ok", url |-> Seed, crawlEntireWebsite |-> TRUE,
              concurrentPages |-> MaxConcurrentPages,
              slowRateLimit |-> FALSE])
  /\ wcag = WcagIdle
  /\ nav = NavIdle
  /\ audit = AuditIdle
  /\ plan = PlanIdle
  /\ fetch = FetchIdle

\* batch.map(async (link) => ... crawlPage(link, ..., visited, ...))
FetchBatch ==
  /\ nTasks < MaxAcquires
  /\ \E batch \in SeqsUpTo(FetchUrls, req.concurrentPages) \ {<<>>} :
       SetAcc(StartInner(batch, Acc))
  /\ UNCHANGED <<req, handlerVars, poolVars, timedOut, auxVars>>

VisitedNext ==
  \/ FetchBatch
  \/ \E t \in tasks : LaunchSettle(t)
  \/ \E t \in tasks : FetchSettle(t)

SpecVisited == VisitedInit /\ [][VisitedNext]_vars

\* One request served while other requests tear the pool down.
BusyNext ==
  \/ Next
  \/ PoolRelease
  \/ PoolCleanupFinish
  \/ \E t \in tasks : CleanupResume(t)

\* The request served has concurrentPages 1.
BusyInit ==
  /\ \E r \in Requests : r.concurrentPages = 1 /\ InitRun(r)
  /\ wcag = WcagIdle
  /\ nav = NavIdle
  /\ audit = AuditIdle
  /\ plan = PlanIdle
  /\ fetch = FetchIdle

SpecBusy == BusyInit /\ [][BusyNext]_vars

\* Every outcome of a navigation: a response with any status, or an
\* exception with any bounded message.
NavInit ==
  /\ InitRun([kind |-> "noUrl", url |-> Seed, crawlEntireWebsite |-> FALSE,
              concurrentPages |-> 1,
              slowRateLimit |-> FALSE])
  /\ wcag = WcagIdle
  /\ audit = AuditIdle
  /\ plan = PlanIdle
  /\ fetch = FetchIdle
  /\ \/ \E status \in Statuses : nav = NavInput("response", status, FALSE, <<>>)
     \/ \E message \in SeqsUpTo(Pieces, MaxMessageLen) :
          nav = NavInput("exception", NoStatus, TRUE, message)
     \/ nav = NavInput("exception", NoStatus, FALSE, <<>>)

NavNext == ClassifyStatus \/ MapException

SpecNav == NavInit /\ [][NavNext]_vars

\* The audit of one page under every selection of levels and every bounded
\* engine result.
AuditOutcomes == {[tags |-> <<wcag2a>>], [tags |-> <<wcag2aaa>>], [tags |-> <<catAria>>]}
RawResults ==
  {[violations |-> v, passes |-> <<>>, incomplete |-> <<>>, inapplicable |-> n] :
     v, n \in SeqsUpTo(AuditOutcomes, MaxOutcomes)}

AuditInit ==
  /\ InitRun([kind |-> "noUrl", url |-> Seed, crawlEntireWebsite |-> FALSE,
              concurrentPages |-> 1,
              slowRateLimit |-> FALSE])
  /\ wcag = WcagIdle
  /\ nav = NavIdle
  /\ plan = PlanIdle
  /\ fetch = FetchIdle
  /\ \E l \in Levels, raw \in RawResults : audit = AuditCalled(l, raw)

AuditNext ==
  \/ AuditSnapshot
  \/ AuditLaunch
  \/ AuditNavigate
  \/ AuditEngine
  \/ AuditAnalysis
  \/ AuditRetry
  \/ AuditRaceTimeout
  \/ AuditCleanup

SpecAudit == AuditInit /\ [][AuditNext]_vars

\* ------------------------------------------------ crawlPage, step by step
\* One crawlPage call followed through its awaits, with the result that its
\* caller gets.  A field that the returned object does not have is Undefined.
Undefined == "undefined"
NoReport == [undefined |-> TRUE]
CrawlResult(url, screenshot, links, accessibility, error) ==
  [url |-> url, screenshot |-> screenshot, links |-> links,
   accessibilityResults |-> accessibility, error |-> error]

\* return {url, links: [], error}
ErrorResult(url, error) == CrawlResult(url, Undefined, <<>>, NoReport, error)

BlockedSiteError == <<"This", "website", "is", "known", "to", "block", "web", "crawlers.">>
PageCrawlTimeout == <<"Page", "crawl", "timeout">>
PageStatuses == {NoStatus, 200, 403, 404, 429}
PageFailures == {<<"Navigation", "timeout">>, <<"Target", "closed">>}

FetchCalled(u, takeScreenshots, collectLinks, checkAccessibility) ==
  [phase |-> "entry", url |-> u, takeScreenshots |-> takeScreenshots,
   collectLinks |-> collectLinks, checkAccessibility |-> checkAccessibility,
   screenshotPath |-> Undefined, links |-> <<>>, accessibilityResults |-> NoReport,
   from |-> "none", result |-> ErrorResult(u, NoError)]

Returned(f, result) == [f EXCEPT !.phase = "returned", !.from = f.phase, !.result = result]

\* Mutant of CatchResult: the catch returns what the fetch had collected.
CatchResultKeepsParts(f, message) ==
  Returned(f, CrawlResult(f.url, f.screenshotPath, f.links, f.accessibilityResults,
                          errorMessage(TRUE, message)))

\* catch (error): page closed, return {url, links: [], error: errorMessage}.
CatchResult(f, message) == Returned(f, ErrorResult(f.url, errorMessage(TRUE, message)))

PageUnchanged == UNCHANGED <<req, handlerVars, wave, tasks, nTasks, dispatched,
                             poolVars, timedOut, wcag, nav, plan, pace>>

\* The blocked-host test, the visited test and visited.add(url).
PageEntry ==
  /\ fetch.phase = "entry"
  /\ IF fetch.url.host \in BLOCKED_SITES
     THEN /\ fetch' = Returned(fetch, ErrorResult(fetch.url, BlockedSiteError))
          /\ visited' = visited
     ELSE /\ fetch' = [fetch EXCEPT !.phase = "navigate"]
          /\ visited' = visited \cup {fetch.url}
  /\ audit' = audit
  /\ PageUnchanged

\* getBrowser and newPage, outside the try; page.goto and the status tests.
PageNavigate ==
  /\ fetch.phase = "navigate"
  /\ \/ fetch' = [fetch EXCEPT !.phase = "thrown"]
     \/ \E status \in PageStatuses :
          fetch' = IF statusError(status).failed
                   THEN Returned(fetch, ErrorResult(fetch.url, statusError(status).error))
                   ELSE [fetch EXCEPT !.phase = "screenshot"]
     \/ \E message \in PageFailures : fetch' = CatchResult(fetch, message)
  /\ UNCHANGED <<visited, audit>>
  /\ PageUnchanged

\* The catch of the wave callback: {url, links: [], error: error.message}.
PageCallerCatch ==
  /\ fetch.phase = "thrown"
  /\ fetch' = Returned(fetch, ErrorResult(fetch.url, <<"Failed", "to", "launch">>))
  /\ UNCHANGED <<visited, audit>>
  /\ PageUnchanged

\* The page timer of the wave callback wins the race.
PageTimer ==
  /\ fetch.phase \in {"navigate", "screenshot", "links", "audit", "close"}
  /\ fetch' = [Returned(fetch, ErrorResult(fetch.url, PageCrawlTimeout)) EXCEPT !.from = "timer"]
  /\ UNCHANGED <<visited, audit>>
  /\ PageUnchanged

\* if (takeScreenshots): page.screenshot in its own try/catch.
PageScreenshot ==
  /\ fetch.phase = "screenshot"
  /\ \E ok \in BOOLEAN :
       fetch' = [fetch EXCEPT !.phase = "links",
                              !.screenshotPath = IF fetch.takeScreenshots /\ ok
                                                 THEN "/screenshots/file.png" ELSE Undefined]
  /\ UNCHANGED <<visited, audit>>
  /\ PageUnchanged

\* if (collectLinks): page.evaluate and the filter; then, if
\* (checkAccessibility), the temp directory and the audit call.
PageLinks ==
  /\ fetch.phase = "links"
  /\ \E ok \in BOOLEAN :
       IF fetch.collectLinks /\ ~ok
       THEN /\ fetch' = CatchResult(fetch, <<"Target", "closed">>)
            /\ audit' = audit
       ELSE /\ fetch' = [fetch EXCEPT
                          !.phase = IF fetch.checkAccessibility THEN "audit" ELSE "close",
                          !.links = ExtractLinks(fetch.url, visited, baseUrl, fetch.collectLinks)]
            /\ IF fetch.checkAccessibility
               THEN \E raw \in RawResults :
                      audit' = AuditCalled([A |-> TRUE, AA |-> FALSE, AAA |-> FALSE], raw)
               ELSE audit' = audit
  /\ visited' = visited
  /\ PageUnchanged

\* Mutant of PageAfterAudit: an audit that failed fails the page.
PageAfterAuditFailsPage ==
  /\ fetch.phase = "audit"
  /\ audit.cleaned
  /\ fetch' = IF accessibilityResults.error # <<>>
              THEN Returned(fetch, ErrorResult(fetch.url, accessibilityResults.error))
              ELSE [fetch EXCEPT !.phase = "close",
                                 !.accessibilityResults = accessibilityResults]
  /\ UNCHANGED <<visited, audit>>
  /\ PageUnchanged

\* The race is settled and the finally has run: accessibilityResults is the
\* audit's report, or the empty report with the message of the rejection.
PageAfterAudit ==
  /\ fetch.phase = "audit"
  /\ audit.cleaned
  /\ fetch' = [fetch EXCEPT !.phase = "close", !.accessibilityResults = accessibilityResults]
  /\ UNCHANGED <<visited, audit>>
  /\ PageUnchanged

\* page.close(), the optional delay, return {url, screenshot, links,
\* accessibilityResults}.
PageClose ==
  /\ fetch.phase = "close"
  /\ \E ok \in BOOLEAN :
       fetch' = IF ok
                THEN Returned(fetch, CrawlResult(fetch.url, fetch.screenshotPath, fetch.links,
                                                 fetch.accessibilityResults, NoError))
                ELSE [CatchResult(fetch, <<"Target", "closed">>) EXCEPT !.from = "closeFailed"]
  /\ UNCHANGED <<visited, audit>>
  /\ PageUnchanged

PageInit ==
  /\ \E u \in {Seed, BlockedSeed} :
       /\ InitRun([kind |-> "ok", url |-> u, crawlEntireWebsite |-> TRUE,
                   concurrentPages |-> 1,
              slowRateLimit |-> FALSE])
       /\ \E s, l, a \in BOOLEAN : fetch = FetchCalled(u, s, l, a)
  /\ wcag = WcagIdle
  /\ nav = NavIdle
  /\ audit = AuditIdle
  /\ plan = PlanIdle

PageNext ==
  \/ PageEntry
  \/ PageNavigate
  \/ PageCallerCatch
  \/ PageTimer
  \/ PageScreenshot
  \/ PageLinks
  \/ PageAfterAudit
  \/ PageClose
  \/ (audit.phase # "idle" /\ AuditNext)

SpecPage == PageInit /\ [][PageNext]_vars

\* The level filter applied to every bounded category of outcomes under
\* every selection of levels.
FilterInit ==
  /\ InitRun([kind |-> "noUrl", url |-> Seed, crawlEntireWebsite |-> FALSE,
              concurrentPages |-> 1,
              slowRateLimit |-> FALSE])
  /\ \E l \in Levels, in \in SeqsUpTo(Outcomes, MaxOutcomes) :
       wcag = [phase |-> "input", levels |-> l, category |-> "none",
               input |-> in, output |-> <<>>]
  /\ nav = NavIdle
  /\ audit = AuditIdle
  /\ plan = PlanIdle
  /\ fetch = FetchIdle

FilterNext == \E c \in Categories : ApplyFilter(c)

SpecFilter == FilterInit /\ [][FilterNext]_vars

\* ------------------------------------------------------ discovery planning
\* Every sitemap document, its <loc> values in any order and repeated at
\* will, and the failed fetch; the request is a whole-site crawl of the seed.
AnySitemaps ==
  {SitemapFailed} \cup
  {SitemapFetched(locs) : locs \in SeqsUpTo({U(OriginHost, q) : q \in 0..MaxPath}, MaxSitemapUrls)}

PlanInit ==
  /\ InitRun([kind |-> "ok", url |-> Seed, crawlEntireWebsite |-> TRUE,
              concurrentPages |-> 1,
              slowRateLimit |-> FALSE])
  /\ wcag = WcagIdle
  /\ nav = NavIdle
  /\ audit = AuditIdle
  /\ fetch = FetchIdle
  /\ \E f \in AnySitemaps : plan = [phase |-> "fetched", fetched |-> f]

\* POST: sitemapUrls = await getSitemapUrls(baseUrl); usedSitemap; urlsToCrawl.
PlanDiscovery ==
  /\ plan.phase = "fetched"
  /\ LET p == Plan(getSitemapUrls(plan.fetched), req.url)
     IN plan' = [plan EXCEPT !.phase = "planned"] @@
                [usedSitemap |-> p.usedSitemap, urlsToCrawl |-> p.urlsToCrawl]
  /\ UNCHANGED <<req, handlerVars, taskVars, poolVars, timedOut, wcag, nav, audit, fetch, pace>>

PlanNext == PlanDiscovery

SpecPlan == PlanInit /\ [][PlanNext]_vars


\* ------------------------------------------------------------ properties
UrlsOf(rs) == [k \in 1..Len(rs) |-> rs[k].url]
NoRepetition(s) == \A a, b \in 1..Len(s) : a # b => s[a] # s[b]
FramesOfKind(kind) == SelectSeq(frames, LAMBDA f : f.kind = kind)

RECURSIVE ConcatResults(_)
ConcatResults(fs) == IF fs = <<>> THEN <<>> ELSE Head(fs).results \o ConcatResults(Tail(fs))

RunOver == pc = "done"

\* C1: no URL appears twice in the aggregate result list: neither in the
\* concatenation of the newResults of the non-terminal frames, nor in the
\* results of the terminal frame, nor in the handler's results array.
C1_NoUrlTwice ==
  /\ NoRepetition(UrlsOf(results))
  /\ NoRepetition(UrlsOf(ConcatResults(FramesOfKind("progress"))))
  /\ \A k \in 1..Len(frames) :
       frames[k].kind = "final" => NoRepetition(UrlsOf(frames[k].results))

\* C1 witness: a terminal frame was written in a run where two pages of one
\* wave reported the same new link.
C1_Witness ==
  /\ FramesOfKind("final") # <<>>
  /\ \E k \in 1..Len(frames) :
       /\ frames[k].kind = "progress"
       /\ Len(frames[k].results) >= 2
       /\ SeqToSet(frames[k].results[1].links) \cap SeqToSet(frames[k].results[2].links) # {}

C5_SitemapExclusive ==
  usedSitemap = "true" => SeqToSet(dispatched) \subseteq SeqToSet(urlsToCrawl)

\* C5 witness: a finished sitemap run in which a fetched page reported a
\* same-origin link that the sitemap does not list.
C5_Witness ==
  /\ RunOver
  /\ usedSitemap = "true"
  /\ \E k \in 1..Len(results) :
       \E l \in SeqToSet(results[k].links) : l \notin SeqToSet(urlsToCrawl)

\* C6: in a whole-site run without sitemap that ends with the client still
\* connected, every same-origin link of every successfully fetched page has
\* been fetched itself.
C6_LinksOfEveryWaveFollowed ==
  (RunOver /\ req.crawlEntireWebsite /\ usedSitemap = "false" /\ isClientConnected)
    => \A k \in 1..Len(results) :
         results[k].error = NoError =>
           \A l \in SeqToSet(LinksOf(results[k].url)) :
             StartsWith(l, baseUrl) => l \in SeqToSet(dispatched)

\* C7: the frame with isComplete:true is written at most once and nothing is
\* written after it: in every state it can only be the last frame written.
C7_TerminalFrameLast ==
  \A k \in 1..Len(frames) : frames[k].kind = "final" => k = Len(frames)

\* C7 witness: the run is over and the terminal frame follows several
\* progress frames.
C7_Witness ==
  /\ RunOver
  /\ Len(frames) >= 3
  /\ frames[Len(frames)].kind = "final"

\* C8 as stated: a run that finishes with the client still connected has
\* written a frame with isComplete:true.
C8_TerminalUnlessSevered ==
  (RunOver /\ isClientConnected) => FramesOfKind("final") # <<>>

SetupFails == req.kind \in {"noUrl", "badBody", "badUrl"}

\* C8 amended: a run that finishes with the client still connected has
\* written exactly one closing frame, the frame with isComplete:true or one
\* {error} frame; the error frame stands in only when the request fails
\* during setup or an exception leaves the single page fetch.
C8_OneClosingFrame ==
  (RunOver /\ isClientConnected) =>
     /\ Len(FramesOfKind("final")) + Len(FramesOfKind("error")) = 1
     /\ frames[Len(frames)].kind \in {"final", "error"}
     /\ FramesOfKind("error") # <<>> => (SetupFails \/ ~req.crawlEntireWebsite)
     /\ SetupFails => FramesOfKind("final") = <<>>

\* C8 witness: a whole-site run is over, the client is connected and the
\* terminal frame was written after at least two progress frames.
C8_Witness ==
  /\ RunOver
  /\ isClientConnected
  /\ req.crawlEntireWebsite
  /\ Len(FramesOfKind("progress")) >= 2
  /\ Len(FramesOfKind("final")) = 1

\* C9: a progress frame carries exactly the results of the wave that was
\* just awaited, which are exactly what the step adds to the results array,
\* and the terminal frame carries the concatenation of the newResults of all
\* progress frames.
C9_FrameStep ==
  (Len(frames') = Len(frames) + 1 /\ frames'[Len(frames')].kind = "progress")
    => /\ frames'[Len(frames')].results = ValidResults(wave)
       /\ results' = results \o frames'[Len(frames')].results
       /\ \A k \in 1..Len(frames) :
            SeqToSet(frames[k].results) \cap SeqToSet(frames'[Len(frames')].results) = {}

C9_TerminalIsConcatenation ==
  \A k \in 1..Len(frames) :
    frames[k].kind = "final" =>
      frames[k].results = ConcatResults(FramesOfKind("progress"))

C9_FramesCarryWaves == [][C9_FrameStep]_vars /\ []C9_TerminalIsConcatenation

\* C9 witness: a terminal frame with at least three results follows at
\* least two progress frames.
C9_Witness ==
  /\ Len(FramesOfKind("progress")) >= 2
  /\ \E k \in 1..Len(frames) : frames[k].kind = "final" /\ Len(frames[k].results) >= 3

\* C10: with concurrentPages = 1, a whole-site crawl of N pages whose client
\* stays connected writes N progress frames of one result each, the k-th for
\* the k-th page, and then one terminal frame with the N results.
C10_OneFramePerPage ==
  (RunOver /\ req.kind = "ok" /\ req.crawlEntireWebsite
     /\ req.concurrentPages = 1 /\ isClientConnected)
    => LET n == Len(dispatched)
       IN /\ Len(frames) = n + 1
          /\ \A k \in 1..n : /\ frames[k].kind = "progress"
                             /\ Len(frames[k].results) = 1
                             /\ frames[k].results[1].url = dispatched[k]
          /\ frames[n + 1].kind = "final"
          /\ Len(frames[n + 1].results) = n

\* C10 witness: such a run with three pages, by sitemap or by discovery.
C10_Witness ==
  /\ RunOver
  /\ req.crawlEntireWebsite
  /\ req.concurrentPages = 1
  /\ isClientConnected
  /\ Len(dispatched) = 3
  /\ \A k \in 1..Len(results) : results[k].error = NoError

\* ---------------------------------------------- properties of the filter
WcagPrefix == <<"w", "c", "a", "g">>
Digits == {"0", "1", "2", "3", "4", "5", "6", "7", "8", "9"}

RECURSIVE StripDigits(_)
StripDigits(str) ==
  IF str # <<>> /\ Head(str) \in Digits THEN StripDigits(Tail(str)) ELSE str

\* The conformance level a tag names: wcag, a version number, then a, aa or
\* aaa.  "none" for every other tag.
LevelNamed(tag) ==
  IF ~startsWith(tag, WcagPrefix) THEN "none"
  ELSE LET rest == StripDigits(SubSeq(tag, Len(WcagPrefix) + 1, Len(tag)))
       IN CASE rest = <<"a">> -> "A"
            [] rest = <<"a", "a">> -> "AA"
            [] rest = <<"a", "a", "a">> -> "AAA"
            [] OTHER -> "none"

LevelEnabled(level, wcagLevels) ==
  \/ (level = "A" /\ wcagLevels.A)
  \/ (level = "AA" /\ wcagLevels.AA)
  \/ (level = "AAA" /\ wcagLevels.AAA)

LevelsNamed(result) == {LevelNamed(t) : t \in SeqToSet(result.tags)} \ {"none"}
Retained(result) == result \in SeqToSet(wcag.output)
Filtered == wcag.phase = "filtered"

\* C3: an outcome is retained if and only if it carries no level tag or one
\* of its level tags names an enabled level, in every category.
C3_RetainedIffLevelEnabled ==
  Filtered =>
    \A k \in 1..Len(wcag.input) :
      Retained(wcag.input[k]) <=>
        \/ LevelsNamed(wcag.input[k]) = {}
        \/ \E l \in LevelsNamed(wcag.input[k]) : LevelEnabled(l, wcag.levels)

WcagTagsOf(result) == {t \in SeqToSet(result.tags) : startsWith(t, WcagPrefix)}

\* C4: an outcome whose only WCAG tag is wcag2a is retained exactly when
\* level A is enabled, and an outcome without WCAG tag is always retained.
C4_Wcag2aIffLevelA ==
  Filtered =>
    \A k \in 1..Len(wcag.input) :
      /\ WcagTagsOf(wcag.input[k]) = {wcag2a} => (Retained(wcag.input[k]) <=> wcag.levels.A)
      /\ WcagTagsOf(wcag.input[k]) = {} => Retained(wcag.input[k])

\* C4 witness: with only level A disabled, an outcome whose only WCAG tag is
\* wcag2a has been dropped from the violations.
C4_Witness ==
  /\ Filtered
  /\ wcag.category = "violations"
  /\ wcag.levels = [A |-> FALSE, AA |-> TRUE, AAA |-> TRUE]
  /\ wcag.input = <<[tags |-> <<catAria, wcag2a>>]>>
  /\ wcag.output = <<>>

\* Number of results of rs that are about URL u.
ResultsFor(rs, u) == Cardinality({k \in 1..Len(rs) : rs[k].url = u})

\* C11: when the terminal frame is written, every URL handed to crawlPage has
\* exactly one result in the frame's results, and the frame holds no result
\* for any other URL; a URL whose page timer expired is there with the
\* timeout error.
C11_OneResultPerDispatchedUrl ==
  \A k \in 1..Len(frames) :
    frames[k].kind = "final" =>
      /\ \A d \in 1..Len(dispatched) : ResultsFor(frames[k].results, dispatched[d]) = 1
      /\ \A r \in 1..Len(frames[k].results) :
           frames[k].results[r].url \in SeqToSet(dispatched)

\* A terminal frame of a run of two waves or more in which a page timer
\* expired and another fetch failed.
C11_Witness ==
  /\ FramesOfKind("final") # <<>>
  /\ Len(dispatched) >= 3
  /\ timedOut # {}
  /\ \E r \in 1..Len(results) : results[r].error = "exception"

\* text.includes(phrase), on texts kept as sequences of words.
ContainsPhrase(text, phrase) ==
  \E k \in 1..Len(text) :
    k + Len(phrase) - 1 <= Len(text) /\ SubSeq(text, k, k + Len(phrase) - 1) = phrase

Classified == nav.phase = "done" /\ nav.outcome = "response"
NoContent(status) == <<"No", "content", "(", ToString(status), ")">>
ProxyAuth407 == <<"Proxy", "authentication", "required", "(407)">>

\* C12: the status of the response is classified by the table: 403 forbidden,
\* 429 too many requests, 304 not modified, 204 and 205 no content, 407
\* proxy authentication, every other status from 400 on exactly 'HTTP Error
\* <code>'; 403, 407 and 429 never give the generic message, and a status
\* below 400 other than 204, 205 and 304 gives no error.
C12_StatusTable ==
  Classified =>
    LET status == nav.status
    IN /\ status = 403 => nav.failed /\ ContainsPhrase(nav.error, <<"forbidden">>)
       /\ status = 429 => nav.failed /\ ContainsPhrase(nav.error, <<"Too", "many", "requests">>)
       /\ status = 304 => nav.failed /\ ContainsPhrase(nav.error, <<"not", "modified">>)
       /\ status \in {204, 205} => nav.failed /\ nav.error = NoContent(status)
       /\ status = 407 => nav.failed /\ nav.error = ProxyAuth407
       /\ (status >= 400 /\ status \notin {403, 407, 429}) =>
            nav.failed /\ nav.error = HttpError(status)
       /\ status \in {403, 407, 429} => nav.error # HttpError(status)
       /\ (status < 400 /\ status \notin {204, 205, 304}) => ~nav.failed

\* The markers in the order of the claim, each with its message.
MarkerTable ==
  << <<"ERR_TOO_MANY_REDIRECTS", <<"Too", "many", "redirects", "detected">> >>,
     <<"ERR_ABORTED", <<"Request", "was", "aborted">> >>,
     <<"ERR_HTTP2_PROTOCOL_ERROR", <<"HTTP/2", "protocol", "error">> >>,
     <<"ERR_UNEXPECTED_PROXY_AUTH", <<"Unexpected", "proxy", "authentication">> >>,
     <<"timeout", <<"Page", "load", "timed", "out">> >>,
     <<"net::ERR_CONNECTION_REFUSED", <<"Connection", "refused">> >>,
     <<"net::ERR_CONNECTION_TIMED_OUT", <<"Connection", "timed", "out">> >>,
     <<"net::ERR_NAME_NOT_RESOLVED", <<"Domain", "name", "not", "resolved">> >> >>

Matches(message) ==
  {k \in 1..Len(MarkerTable) : \E p \in 1..Len(message) : message[p] = MarkerTable[k][1]}
FirstMatch(message) == CHOOSE k \in Matches(message) : \A m \in Matches(message) : k <= m
Mapped == nav.phase = "done" /\ nav.outcome = "exception" /\ nav.isError

\* C13: the error of a caught exception is the message of the first marker,
\* in the order of the table, that its text holds; a text holding the
\* name-not-resolved marker and none of the earlier ones gives an error
\* containing "not resolved", and a text holding no marker is passed on
\* unchanged.
C13_FirstMarkerWins ==
  Mapped =>
    /\ Matches(nav.message) # {} => nav.error = MarkerTable[FirstMatch(nav.message)][2]
    /\ Matches(nav.message) = {8} => ContainsPhrase(nav.error, <<"not", "resolved">>)
    /\ Matches(nav.message) = {} => nav.error = nav.message

\* A message holding the name-not-resolved marker before the timeout marker
\* has been mapped to the timeout message.
C13_Witness ==
  /\ Mapped
  /\ nav.message = <<"net::ERR_NAME_NOT_RESOLVED", "timeout">>
  /\ nav.error = <<"Page", "load", "timed", "out">>

\* C14: no crawlPage call lets an exception reach its caller: no call ends
\* thrown, no wave callback has to turn a propagated exception into a result,
\* and no run is aborted with the error frame of the handler's catch.
C14_FetchNeverThrows ==
  /\ \A k \in 1..Len(wave) : wave[k].st # "thrown"
  /\ \A k \in 1..Len(wave) : wave[k].st = "settled" => wave[k].res.error # "exception"
  /\ \A k \in 1..Len(frames) : frames[k].error # "Internal server error during crawl"

\* C15: the instances registered in the pool and not yet closed are never
\* more than MAX_BROWSER_INSTANCES.
C15_PoolAtMostThree ==
  Cardinality(SeqToSet(browserPool) \ closed) <= MAX_BROWSER_INSTANCES

C16_ProceedStep ==
  \A t \in tasks' :
    (/\ t.atTeardown
     /\ t.st \in {"launch", "page"}
     /\ \A o \in tasks : o.id = t.id => o.st \in {"awaitCleanup", "resume"})
    => (~isCleaningUp /\ \E o \in tasks : o.id = t.id /\ o.st = "resume")

\* A call fails with the clean-up error only in a step that starts with a
\* teardown in flight.
C16_DrainStep == \A t \in tasks' : (t.st = "drained" /\ t \notin tasks) => isCleaningUp

C17_ReleaseStep ==
  /\ (isCleaningUp /\ ~isCleaningUp') => browserPool' = <<>>
  /\ (releaseCalls' # releaseCalls /\ isCleaningUp) =>
       (/\ releaseCalls' = Append(releaseCalls, "joined")
        /\ UNCHANGED <<browserPool, isCleaningUp, closing, closed>>)
  /\ (releaseCalls' # releaseCalls /\ ~isCleaningUp /\ browserPool = <<>>) =>
       UNCHANGED <<browserPool, closing, closed, nLaunched>>
  /\ (closing' \ closing) \cap (closing \cup closed) = {}

\* C17: the step that completes a teardown leaves the pool empty, whether or
\* not a close() rejected; a closeAllBrowsers call on an empty pool closes
\* nothing and leaves the pool empty; a call made while a teardown is in
\* flight joins it and invokes no close(); no instance has close() invoked
\* on it twice.
C17_ReleaseAllIdempotent == [][C17_ReleaseStep]_vars

\* A teardown of two instances, joined by a second call, is over; one of
\* its close() calls rejected.
C17_Witness ==
  /\ releaseCalls = <<"started", "joined">>
  /\ ~isCleaningUp
  /\ browserPool = <<>>
  /\ closed = {1, 2}
  /\ closeFailed = {2}

\* Once a write has failed, no step hands a URL to crawlPage or writes a frame.
C18_SeveredStep ==
  ~isClientConnected =>
    /\ dispatched' = dispatched
    /\ nTasks' = nTasks
    /\ frames' = frames
    /\ ~isClientConnected'

\* C18: after a failed write no further wave is dispatched and no frame is
\* written, the terminal frame included; the run ends with the pool torn
\* down.
C18_NoWaveAfterFailedWrite ==
  /\ [][C18_SeveredStep]_vars
  /\ [](~isClientConnected => FramesOfKind("final") = <<>>)
  /\ []((RunOver /\ ~isClientConnected /\ req.kind # "noUrl") =>
          (releaseCalls = <<"started">> /\ ~isCleaningUp /\ browserPool = <<>>
           /\ closing = {}))

\* A run is over whose client went away after the first wave's frame: the
\* links found by that wave were never fetched.
C18_Witness ==
  /\ RunOver
  /\ ~isClientConnected
  /\ Len(dispatched) = 1
  /\ Len(newLinksArray) > 0
  /\ j = 0
  /\ closed # {}

\* C19: a request without url never gets a sitemap fetch, a page fetch or a
\* browser; it writes nothing but the frame {error: 'URL is required'}, and
\* once it is over with the client still there, that one frame was written
\* and the stream closed.
C19_MissingUrlOneFrame ==
  req.kind = "noUrl" =>
    /\ pc # "sitemap" /\ usedSitemap = "null"
    /\ nTasks = 0 /\ tasks = {} /\ dispatched = <<>> /\ visited = {}
    /\ nLaunched = 0 /\ browserPool = <<>>
    /\ \A k \in 1..Len(frames) : frames[k] = ErrorFrame("URL is required")
    /\ Len(frames) <= 1
    /\ (RunOver /\ isClientConnected) =>
         (frames = <<ErrorFrame("URL is required")>> /\ writerClosed)

\* The request without url has been answered.
C19_Witness ==
  /\ req.kind = "noUrl"
  /\ RunOver
  /\ frames = <<ErrorFrame("URL is required")>>
  /\ writerClosed

AuditReturned == audit.phase = "returned"

\* A failed attempt that was not the last one is followed by a new attempt.
C20_RetryStep ==
  audit.phase = "retryWait" =>
    (audit'.phase = "retryWait" \/
     (audit'.phase = "snapshot" /\ audit'.attempts = audit.attempts + 1))

\* C20: the audit makes at most maxRetries attempts; every attempt works on
\* the snapshot and the browser it has built and launched itself; a returned
\* report without error is the filtered result of an attempt all of whose
\* predecessors failed; a failed attempt is followed by a new one unless it
\* was the third, and then the report has four empty lists and an error.
C20_AtMostThreeAttempts ==
  /\ [][C20_RetryStep]_vars
  /\ [](audit.phase # "idle" =>
          /\ audit.attempts <= maxRetries
          /\ audit.retryCount \in {audit.attempts - 1, audit.attempts}
          /\ audit.phase \in {"launch", "navigate", "engine", "analysis"} =>
               audit.snapshotAt = audit.attempts
          /\ audit.phase \in {"navigate", "engine", "analysis"} =>
               (audit.launchAt = audit.attempts /\ audit.browserOpen)
          /\ (AuditReturned /\ audit.report.error = <<>>) =>
               (/\ audit.report = FilteredReport(audit.raw, audit.levels)
                /\ audit.retryCount = audit.attempts - 1
                /\ audit.snapshotAt = audit.attempts
                /\ audit.launchAt = audit.attempts)
          /\ (AuditReturned /\ audit.report.error # <<>>) =>
               (/\ audit.attempts = maxRetries
                /\ audit.retryCount = maxRetries
                /\ audit.report = EmptyReport(audit.report.error)))

\* The third attempt succeeded after two failed ones, and the filter
\* removed an outcome from its result.
C20_Witness ==
  /\ AuditReturned
  /\ audit.attempts = 3
  /\ audit.report.error = <<>>
  /\ audit.raw.violations # <<>>
  /\ audit.report.violations = <<>>

\* C21: once the audit of a page is over and crawlPage has cleaned up, no
\* directory made by a snapshot build of any attempt exists any more.
C21_SnapshotDirsGone ==
  (audit.phase # "idle" /\ audit.cleaned) =>
     \A k \in 1..maxRetries : SnapshotDir(k) \notin audit.fs

\* C22: a getBrowser call that failed because the pool was being torn down
\* never reaches the client as the generic internal-server-error frame.
C22_DrainingNotGeneric ==
  (\E t \in tasks : t.st = "drained") =>
     \A k \in 1..Len(frames) :
        frames[k].kind = "error" => frames[k].error # "Internal server error during crawl"

\* C23: while the fetches of a wave are in flight, every fetch dispatched in
\* an earlier wave has its result in the handler's results, in dispatch
\* order, and every earlier wave's frame has been written: the progress
\* frames carry exactly those results.
FetchesOf(w) == SelectSeq(w, LAMBDA sl : sl.st # "null")
C23_WavesInSequence ==
  InWave =>
    /\ Len(dispatched) = Len(results) + Len(FetchesOf(wave))
    /\ UrlsOf(results) = SubSeq(dispatched, 1, Len(results))
    /\ UrlsOf(FetchesOf(wave)) = SubSeq(dispatched, Len(results) + 1, Len(dispatched))
    /\ isClientConnected
    /\ ConcatResults(FramesOfKind("progress")) = results

\* A second wave is in flight, with a fetch still pending, after the first
\* wave's results were pushed and written.
C23_Witness ==
  /\ InWave
  /\ results # <<>>
  /\ \E k \in DOMAIN wave : wave[k].st = "pending"
  /\ Len(FramesOfKind("progress")) >= 1

\* C24: the fetches in progress, those abandoned by a timer and still
\* running included, are never more than concurrentPages.
C24_AtMostConcurrentPages == Cardinality(tasks) <= req.concurrentPages

\* C25: planning gives usedSitemap = true exactly when the sitemap was
\* fetched and holds at least one <loc>; the plan is then those URLs without
\* repetition; in every other case the plan is the seed alone with
\* usedSitemap = false; every fetch outcome gives a plan.
Yielded == plan.fetched.outcome = "content" /\ plan.fetched.locs # <<>>
C25_SitemapPlan ==
  plan.phase = "planned" =>
    /\ plan.usedSitemap = "true" <=> Yielded
    /\ Yielded =>
          /\ NoRepetition(plan.urlsToCrawl)
          /\ SeqToSet(plan.urlsToCrawl) = SeqToSet(plan.fetched.locs)
    /\ ~Yielded =>
          /\ plan.urlsToCrawl = <<req.url>>
          /\ plan.usedSitemap = "false"

\* A sitemap that names a page twice has been planned.
C25_Witness ==
  /\ plan.phase = "planned"
  /\ Yielded
  /\ ~NoRepetition(plan.fetched.locs)
  /\ Len(plan.urlsToCrawl) >= 2

\* C26: while a teardown is in flight no instance is launched or registered
\* in the pool, and every instance ever launched is in the pool, being closed
\* or closed: none is left behind unclosed.
Accounted(b) == b \in SeqToSet(browserPool) \cup closing \cup closed
C26_TeardownStep ==
  /\ isCleaningUp => (nLaunched' = nLaunched /\ (browserPool' = browserPool \/ browserPool' = <<>>))
  /\ \A b \in 1..nLaunched' : Accounted(b)'
C26_TeardownExcludesLaunch == [][C26_TeardownStep]_vars

\* C27: three consecutive getBrowser calls that are handed a pooled instance
\* get three different instances.  A call was handed a pooled instance when
\* an earlier call holds the same instance: the one that launched it.
HandedPooled(t) ==
  /\ t.st = "page"
  /\ \E l \in tasks : l.st = "page" /\ l.browser = t.browser /\ l.id < t.id
C27_RoundRobin ==
  \A a, b, c \in tasks :
     (/\ HandedPooled(a) /\ HandedPooled(b) /\ HandedPooled(c)
      /\ b.id = a.id + 1 /\ c.id = b.id + 1)
     => Cardinality({a.browser, b.browser, c.browser}) = MAX_BROWSER_INSTANCES

\* C28: every fetch that goes on to acquire a browser is for a URL that was
\* not in the visited set before the step and is in it after the step, and
\* no two fetches started in one step are for the same URL: no URL is
\* navigated to twice in a run.
Started == {t \in tasks' : t.id > nTasks}
C28_StartStep ==
  \A t \in Started :
     /\ t.url \notin visited
     /\ t.url \in visited'
     /\ \A o \in Started : o.url = t.url => o = t
C28_TestAndInsertAtomic == [][C28_StartStep]_vars

\* Two fetches of one URL were started in the same batch: the first is on
\* its way, the second returned at once without a page.
C28_Witness ==
  /\ Len(wave) = 2
  /\ wave[1].url = wave[2].url
  /\ wave[1].st = "pending"
  /\ wave[2].st = "settled" /\ wave[2].res.error = NoError
  /\ Cardinality({t \in tasks : t.url = wave[1].url}) = 1

\* C29: a result that carries an error has no links, no screenshot
\* reference and no accessibility report.
FetchReturned == fetch.phase = "returned"
C29_ErrorResultsAreBare ==
  (FetchReturned /\ fetch.result.error # NoError) =>
     /\ fetch.result.links = <<>>
     /\ fetch.result.screenshot = Undefined
     /\ fetch.result.accessibilityResults = NoReport

\* An exception was caught after the screenshot was taken and the links
\* were collected.
C29_Witness ==
  /\ FetchReturned
  /\ fetch.result.error # NoError
  /\ fetch.from = "closeFailed"
  /\ fetch.screenshotPath # Undefined
  /\ fetch.links # <<>>

\* C30: when the audit failed or was timed out, the result returned by
\* crawlPage, unless the page close failed or the page timer fired, has no
\* error, the screenshot reference and the links collected before the audit,
\* and a report with four empty lists and an error.
AuditFailed ==
  /\ audit.phase # "idle"
  /\ audit.raced \/ (audit.phase = "returned" /\ audit.report.error # <<>>)
C30_AuditFailureKeepsPage ==
  (FetchReturned /\ AuditFailed /\ fetch.from \in {"audit", "close"}) =>
     /\ fetch.result.error = NoError
     /\ fetch.result.screenshot = fetch.screenshotPath
     /\ fetch.result.links = fetch.links
     /\ fetch.result.accessibilityResults # NoReport
     /\ fetch.result.accessibilityResults =
          EmptyReport(fetch.result.accessibilityResults.error)
     /\ fetch.result.accessibilityResults.error # <<>>

\* A page with a screenshot and links whose audit was timed out has
\* returned.
C30_Witness ==
  /\ FetchReturned
  /\ audit.phase # "idle" /\ audit.raced
  /\ fetch.from = "close"
  /\ fetch.result.screenshot # Undefined
  /\ fetch.result.links # <<>>
  /\ fetch.result.accessibilityResults = EmptyReport(AuditTimeoutError)

\* C31: a page whose timer expired has, once its wave is over, exactly one
\* result, with the timeout error; in the results array and in every
\* progress frame the results with the timeout error are exactly those of
\* the pages whose timer expired, so that the other pages of the wave keep
\* their own results; a run in which a timer expired writes no error frame.
IsTimeoutResult(r) == r.error = "Page crawl timeout"
InFlight(u) == \E k \in DOMAIN wave : wave[k].url = u
C31_TimeoutIsOneResult ==
  /\ \A u \in timedOut :
        ~InFlight(u) =>
          /\ ResultsFor(results, u) = 1
          /\ \A k \in 1..Len(results) : results[k].url = u => IsTimeoutResult(results[k])
  /\ \A k \in 1..Len(results) : IsTimeoutResult(results[k]) => results[k].url \in timedOut
  /\ \A f \in 1..Len(frames) :
        frames[f].kind = "progress" =>
          \A k \in 1..Len(frames[f].results) :
             IsTimeoutResult(frames[f].results[k]) <=> frames[f].results[k].url \in timedOut
  /\ timedOut # {} => FramesOfKind("error") = <<>>

\* A progress frame carries the timeout result of one page next to the
\* successful result of another page of the same wave, and the run has gone
\* on to its terminal frame.
C31_Witness ==
  /\ FramesOfKind("final") # <<>>
  /\ \E f \in 1..Len(frames) :
       /\ frames[f].kind = "progress"
       /\ \E a, b \in 1..Len(frames[f].results) :
            /\ IsTimeoutResult(frames[f].results[a])
            /\ frames[f].results[b].error = NoError

\* C32: within one audit at most one isolated browser is live; none is live
\* when an attempt begins (snapshot, launch), during the wait before a retry
\* or once the audit has returned, and none is ever put in the crawl's pool.
C32_OneIsolatedBrowser ==
  audit.phase # "idle" =>
    /\ Cardinality(audit.live) <= 1
    /\ audit.live \subseteq {audit.launchAt}
    /\ audit.phase \in {"snapshot", "launch", "retryWait", "returned"} => audit.live = {}
    /\ audit.phase \in {"navigate", "engine", "analysis"} => audit.live = {audit.attempts}
    /\ browserPool = <<>> /\ nLaunched = 0

\* A later attempt has launched its own browser after an earlier one had
\* launched and failed.
C32_Witness ==
  /\ audit.phase = "analysis"
  /\ audit.attempts = 3
  /\ audit.live = {3}
  /\ audit.retryCount = 2
\* C33: when crawlEntireWebsite is not set, no sitemap is fetched and
\* usedSitemap stays null, the seed is the only URL handed to a fetch, every
\* result has an empty link set, and a stream that carries the terminal
\* frame carries exactly one frame before it, a progress frame with the one
\* result.
SinglePageRun == req.kind = "ok" /\ ~req.crawlEntireWebsite
C33_SinglePageRun ==
  SinglePageRun =>
    /\ usedSitemap = "null"
    /\ urlsToCrawl = <<>> /\ newLinksArray = <<>>
    /\ pc \in {"start", "singleWait", "final", "cleanup", "cleanupWait", "closeWriter", "done"}
    /\ dispatched \in {<<>>, <<req.url>>}
    /\ Len(results) <= 1
    /\ \A k \in 1..Len(results) : results[k].url = req.url /\ results[k].links = <<>>
    /\ Len(FramesOfKind("progress")) <= 1
    /\ \A f \in 1..Len(frames) :
         /\ frames[f].kind = "progress" => f = 1 /\ frames[f].results = results /\ Len(results) = 1
         /\ frames[f].kind = "final" =>
              /\ f = 2 /\ Len(frames) = 2
              /\ frames[1].kind = "progress"
              /\ frames[f].results = frames[1].results

\* A single-page run of a page that has links has sent its two frames.
C33_Witness ==
  /\ SinglePageRun
  /\ Len(frames) = 2
  /\ frames[2].kind = "final"
  /\ frames[1].results[1].error = NoError
  /\ LinksOf(req.url) # <<>>
  /\ pc = "done"
\* C34: a fetch of a URL whose host is on the deny-list gives its error
\* result at once: no call of crawlPage for such a URL is ever in progress,
\* no such URL enters the visited set, its slot in the wave is settled with
\* the error and no links, and a run whose URLs are all on such a host leaves
\* the pool as it was, with no instance launched.
OnDenyList(u) == u.host \in {<<"reddit.com">>, <<"www.reddit.com">>, <<"udemy.com">>, <<"www.udemy.com">>}
C34_BlockedHostDoesNothing ==
  /\ \A t \in tasks : ~OnDenyList(t.url)
  /\ \A u \in visited : ~OnDenyList(u)
  /\ \A k \in DOMAIN wave : OnDenyList(wave[k].url) =>
        /\ wave[k].st \in {"settled", "null"}
        /\ wave[k].res = Res(wave[k].url, <<>>, "blocked site")
  /\ \A k \in 1..Len(results) : OnDenyList(results[k].url) =>
        results[k] = Res(results[k].url, <<>>, "blocked site")
  /\ (req.kind = "ok" /\ OnDenyList(req.url)) =>
        /\ visited = {} /\ tasks = {}
        /\ browserPool = <<>> /\ nLaunched = 0 /\ closing = {} /\ closed = {}

\* A whole-site run on a deny-listed host has reported two pages of the
\* sitemap as blocked.
C34_Witness ==
  /\ req.kind = "ok" /\ OnDenyList(req.url)
  /\ Len(dispatched) >= 2
  /\ Len(results) >= 2
  /\ \A k \in 1..Len(results) : results[k].error = "blocked site"
  /\ pc = "done"
\* C35: a request whose url does not parse gets no sitemap fetch and no page
\* fetch; nothing is written but the frame {error: 'Internal server error'},
\* at most once and never a terminal frame; the stream is closed only after
\* the teardown of the pool has been called and has finished; and once the
\* run is over with the client still there, that one frame was written and
\* the stream closed.
C35_MalformedSeed ==
  req.kind = "badUrl" =>
    /\ pc \in {"start", "cleanup", "cleanupWait", "closeWriter", "done"}
    /\ usedSitemap = "null"
    /\ nTasks = 0 /\ tasks = {} /\ dispatched = <<>> /\ visited = {} /\ results = <<>>
    /\ \A k \in 1..Len(frames) : frames[k] = ErrorFrame("Internal server error")
    /\ Len(frames) <= 1
    /\ (writerClosed \/ RunOver) => (releaseCalls = <<"started">> /\ ~isCleaningUp)
    /\ (RunOver /\ isClientConnected) =>
         (frames = <<ErrorFrame("Internal server error")>> /\ writerClosed)

\* The request with the malformed url has been answered and the stream
\* closed after the teardown.
C35_Witness ==
  /\ req.kind = "badUrl"
  /\ RunOver
  /\ frames = <<ErrorFrame("Internal server error")>>
  /\ writerClosed
  /\ releaseCalls = <<"started">>
\* The runs of the requests that set slowRateLimit.
SlowInit ==
  /\ \E r \in SlowRequests : InitRun(r)
  /\ wcag = WcagIdle
  /\ nav = NavIdle
  /\ audit = AuditIdle
  /\ plan = PlanIdle
  /\ fetch = FetchIdle

SpecSlow == SlowInit /\ [][Next]_vars

\* C36: with slowRateLimit set, whenever a wave loop is about to dispatch a
\* wave that is not the first of the run, a delay has elapsed since the
\* previous wave was dispatched: the 1 s delay of the handler after the
\* wave's frame, or the 2 s delay inside a fetch the wave has awaited.
AboutToDispatch ==
  \/ pc = "outerLoop" /\ i < Len(urlsToCrawl) /\ isClientConnected
  \/ pc = "innerLoop" /\ j < Len(newLinksArray) /\ isClientConnected
C36_DelayBetweenWaves ==
  (req.slowRateLimit /\ AboutToDispatch /\ pace # "none") => pace = "delay"
\* C37: the run of every request ends.  No step of a run leads back to a
\* state the run has been in (every step advances Clock, and the states of
\* a run are finitely many), so a run in which every step that can be taken
\* is eventually taken (the event loop runs every ready continuation, every
\* timer fires, every fetch returns or times out) comes to a state with no
\* step left; and in every such state the handler has left its wave loops,
\* the teardown of the pool is complete and the stream is closed, or the
\* close was skipped because the client is gone.
Terminated ==
  /\ pc = "done"
  /\ wave = <<>>
  /\ req.kind # "noUrl" => (releaseCalls # <<>> /\ ~isCleaningUp /\ browserPool = <<>>)
  /\ writerClosed \/ ~isClientConnected

PcRank ==
  CASE pc = "start" -> 0
    [] pc = "sitemap" -> 1
    [] pc = "outerLoop" -> 2
    [] pc = "outerWait" -> 3
    [] pc = "innerLoop" -> 4
    [] pc = "innerWait" -> 5
    [] pc = "singleWait" -> 2
    [] pc = "final" -> 1000
    [] pc = "cleanup" -> 1001
    [] pc = "cleanupWait" -> 1002
    [] pc = "closeWriter" -> 1003
    [] OTHER -> 1004

TaskRank(t) ==
  CASE t.st = "awaitCleanup" -> 0
    [] t.st = "resume" -> 1
    [] t.st = "launch" -> 2
    [] t.st = "page" -> 3
    [] OTHER -> 4

RECURSIVE SumRanks(_)
SumRanks(ts) ==
  IF ts = {} THEN 0
  ELSE LET t == CHOOSE x \in ts : TRUE IN TaskRank(t) + SumRanks(ts \ {t})

\* Tasks that are over count as rank 4.
Clock ==
  PcRank + 4 * i + 2 * j
  + SumRanks(tasks) + 4 * (nTasks - Cardinality(tasks))
  + Cardinality(timedOut) + Cardinality(closed)
  + (IF isClientConnected THEN 0 ELSE 1)

C37_RunTerminates ==
  /\ [](~ENABLED <<Next>>_vars => Terminated)
  /\ [][Clock' > Clock]_vars

\* A whole-site run of several waves has come to its end.
C37_Witness ==
  /\ Terminated
  /\ req.kind = "ok" /\ req.crawlEntireWebsite
  /\ Len(FramesOfKind("progress")) >= 2
  /\ writerClosed
  /\ ~ENABLED <<Next>>_vars

\* The request body is used as parsed: concurrentPages is whatever number
\* the client sent, 0 included.
MaxFrames == 6               \* the runs are followed up to this many frames
AnyRequests ==
  Requests \cup {[r EXCEPT !.concurrentPages = 0] : r \in {q \in Requests : q.kind = "ok"}}

AnyInit ==
  /\ \E r \in AnyRequests : InitRun(r)
  /\ wcag = WcagIdle
  /\ nav = NavIdle
  /\ audit = AuditIdle
  /\ plan = PlanIdle
  /\ fetch = FetchIdle

\* The steps of Next; the first wave loop is followed while fewer than
\* MaxFrames frames are written.
AnyNext ==
  \/ MissingUrl
  \/ SetupFailure
  \/ StartWholeSite
  \/ StartSinglePage
  \/ GetSitemap
  \/ Len(frames) < MaxFrames /\ OuterLoop
  \/ OuterWaveDone
  \/ InnerLoop
  \/ InnerWaveDone
  \/ SingleDone
  \/ SingleThrown
  \/ Final
  \/ CleanupStart
  \/ CleanupFinish
  \/ CloseWriter
  \/ \E t \in tasks : LaunchSettle(t)
  \/ \E t \in tasks : FetchSettle(t)
  \/ \E t \in tasks : PageTimeout(t)
  \/ \E b \in closing : CloseSettle(b)

SpecAny == AnyInit /\ [][AnyNext]_vars

\* C38: whatever concurrentPages the request carries, a wave holds at least
\* one and at most 5 URLs, and a wave loop that goes on to its next
\* iteration has advanced its index.
C38_LoopStep ==
  /\ (pc = "outerWait" /\ pc' = "outerLoop") => i' > i
  /\ (pc = "innerWait" /\ pc' = "innerLoop") => j' > j
C38_WavesAdvance ==
  /\ [](InWave => (Len(wave) >= 1 /\ Len(wave) <= 5))
  /\ [][C38_LoopStep]_vars

\* C39: as long as the request served has not begun its own teardown, every
\* instance on which one of its fetches has a page is in the pool and is
\* neither being closed nor closed: the teardowns of the other requests
\* leave it alone.
OwnTeardownBegun == pc \in {"cleanupWait", "closeWriter", "done"}
C39_ForeignTeardownSpares ==
  ~OwnTeardownBegun =>
    \A t \in tasks : t.st = "page" =>
       /\ t.browser \notin closing \cup closed
       /\ t.browser \in SeqToSet(browserPool)

\* A sitemap is a document of the site's choosing: its <loc> values need not
\* be pages of the seed's origin.
CrossSitemaps ==
  {SitemapFetched(<<U(OtherHost, 0)>>),
   SitemapFetched(<<Seed, U(OtherHost, 0)>>),
   SitemapFetched(<<U(OtherHost, 0), U(OriginHost, 1)>>)}

\* await getSitemapUrls(baseUrl) on such a sitemap; usedSitemap; urlsToCrawl.
GetSitemapCross ==
  /\ pc = "sitemap"
  /\ \E f \in CrossSitemaps :
       /\ usedSitemap' = Plan(getSitemapUrls(f), req.url).usedSitemap
       /\ urlsToCrawl' = Plan(getSitemapUrls(f), req.url).urlsToCrawl
  /\ i' = 0
  /\ pc' = "outerLoop"
  /\ UNCHANGED <<req, isClientConnected, frames, writerClosed, results,
                 newLinksArray, j, taskVars, poolVars, timedOut, auxVars>>

CrossNext ==
  \/ Next
  \/ GetSitemapCross

SpecCross == BusyInit /\ [][CrossNext]_vars

\* C40: every URL handed to a fetch and every link recorded in a result has
\* the origin of the seed URL.
SameOrigin(u) == u.host = req.url.host
C40_SameOriginOnly ==
  /\ \A k \in 1..Len(dispatched) : SameOrigin(dispatched[k])
  /\ \A t \in tasks : SameOrigin(t.url)
  /\ \A k \in 1..Len(results) :
       \A l \in 1..Len(results[k].links) : SameOrigin(results[k].links[l])
====
